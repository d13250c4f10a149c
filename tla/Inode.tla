-------------------------------- MODULE Inode --------------------------------
(* The contents of files: allocation of blocks and the block map of an inode   *)
(* (fs.c), reading and writing through open files (file.c), on an image made   *)
(* by mkfs (mkfs.c).  A chunk of filewrite() is one transaction under the      *)
(* inode's lock and one action; other processes run between two chunks.        *)
(* One unit stands for a byte, and for the 4 bytes of a block number.          *)
(* balloc() takes the blocks of the log for free ones.  As long as no file has *)
(* one of them, nobody sees what log_write() and commit_trans() write there,   *)
(* and the model leaves it out; the model stops where a file gets one, since   *)
(* every commit then overwrites part of the file, and the file part of the log.*)
EXTENDS Naturals, FiniteSets, SequencesExt

CONSTANTS
    Proc, Fd,                   \* processes, and struct files they share
    BSIZE, NDIRECT, NINDIRECT, IPB, BPB, LOGSIZE,      \* fs.h, param.h
    NBLOCKS, NLOG, NINODES,     \* mkfs.c: nblocks, nlog, ninodes
    NFILES,                     \* files mkfs puts into the image
    FileSizes,                  \* their sizes
    Counts,                     \* the n of a read or write
    MaxCalls,                   \* bound: writes and truncations in a behaviour
    UINT,                       \* values of an unsigned int
    NoFd                        \* no open file

Usedblocks == NINODES \div IPB + 3 + 1
SIZE == Usedblocks + NBLOCKS + NLOG
MAXFILE == NDIRECT + NINDIRECT
IBLOCK(i) == i \div IPB + 2
BBLOCK(b) == b \div BPB + NINODES \div IPB + 3

\* The size of the root directory is rounded up to the next block even if its
\* entries fill their blocks; the last block is then missing.
RootIsNotFull == (2 + NFILES) % BSIZE # 0

ASSUME InodeAssumption ==
    /\ BPB > SIZE                \* mkfs: assert(used < 512*8), one bitmap block
    /\ NFILES + 1 < NINODES
    /\ RootIsNotFull
    /\ MAXFILE * BSIZE + Max(Counts) < UINT

VARIABLES
    fs,      \* the file system as system calls see it: used (the bitmap), data
             \* (blocks), din (inodes), logged (log.lh.sector), stop (why the
             \* kernel panicked, or "overrun": a file got a block of the log)
    f,       \* open files: ip and off
    todo,    \* for each process in filewrite(): the file and n - i
    file,    \* history: what each file should contain
    calls    \* how many writes and truncations there were

vars == <<fs, f, todo, file, calls>>

Block == 0 .. SIZE - 1
Inum == 1 .. NINODES - 1
ROOTINO == 1
LogBlocks == Usedblocks + NBLOCKS .. SIZE - 1
Zero == [k \in 0 .. BSIZE - 1 |-> 0]

-----------------------------------------------------------------------------
(* Blocks.  An operator on a file system s gives the file system after it.     *)

\* Op applied to the value of s: one step after another.
Then(s, Op(_)) == CHOOSE r \in {Op(u) : u \in {s}} : TRUE

Smaller(a, b) == IF a < b THEN a ELSE b

Free(s) == Block \ s.used

New(s) == Min(Free(s))

Going(s) == s.stop = "no"

\* log_write(): the limit is tested before the block is looked for in the log.
LogWrite(s, b) ==
    IF ~Going(s) THEN s
    ELSE IF Cardinality(s.logged) >= Smaller(LOGSIZE, NLOG - 1)
    THEN [s EXCEPT !.stop = "too big a transaction"]
    ELSE [s EXCEPT !.logged = @ \cup {b}]

\* Broken: the bitmap is not written.
BallocUnmarked(s) ==
    IF Free(s) = {} THEN [s EXCEPT !.stop = "out of blocks"]
    ELSE IF New(s) \in LogBlocks THEN [s EXCEPT !.stop = "overrun"]
    ELSE LogWrite(LogWrite([s EXCEPT !.data[New(s)] = Zero], BBLOCK(New(s))), New(s))

\* balloc(): the first free block, New(s), zeroed by bzero().
Balloc(s) ==
    IF Free(s) = {} THEN [s EXCEPT !.stop = "out of blocks"]
    ELSE IF New(s) \in LogBlocks THEN [s EXCEPT !.stop = "overrun"]
    ELSE LogWrite(LogWrite([s EXCEPT !.used = @ \cup {New(s)}, !.data[New(s)] = Zero],
                           BBLOCK(New(s))), New(s))

\* bfree() of one block after the other.
Bfree(s, bs) ==
    IF bs \subseteq s.used
    THEN FoldSet(LAMBDA b, t : LogWrite(t, BBLOCK(b)), [s EXCEPT !.used = @ \ bs], bs)
    ELSE [s EXCEPT !.stop = "freeing free block"]

Iupdate(s, i) == LogWrite(s, IBLOCK(i))

\* The block number in a slot of an inode, and in an indirect block.
Addr(s, i, bn) ==
    IF bn < NDIRECT THEN s.din[i].addrs[bn]
    ELSE IF s.din[i].addrs[NDIRECT] = 0 THEN 0
    ELSE s.data[s.din[i].addrs[NDIRECT]][bn - NDIRECT]

\* The block for slot k of the inode, allocated if there is none.
BmapSlot(s, i, k) ==
    IF s.din[i].addrs[k] # 0 THEN s
    ELSE Then(Balloc(s), LAMBDA t :
             IF Going(t) THEN [t EXCEPT !.din[i].addrs[k] = New(s)] ELSE t)

\* Broken: an address 0 in the indirect block is used as it is.
BmapNoAlloc(s, i, bn) == BmapSlot(s, i, IF bn < NDIRECT THEN bn ELSE NDIRECT)

\* bmap(): the file system after it; the block is then Addr(.., i, bn).
Bmap(s, i, bn) ==
    IF bn < NDIRECT THEN BmapSlot(s, i, bn)
    ELSE Then(BmapSlot(s, i, NDIRECT), LAMBDA t :
             LET a == t.din[i].addrs[NDIRECT] IN
             IF ~Going(t) \/ Addr(t, i, bn) # 0 THEN t
             ELSE Then(Balloc(t), LAMBDA u :
                 IF Going(u) THEN LogWrite([u EXCEPT !.data[a][bn - NDIRECT] = New(t)], a) ELSE u))

\* Broken: the indirect block itself is not freed.
ItruncLeaks(s, i) ==
    LET t == Bfree(s, ({s.din[i].addrs[k] : k \in 0 .. NDIRECT - 1}
                       \cup {Addr(s, i, bn) : bn \in NDIRECT .. MAXFILE - 1}) \ {0}) IN
    Iupdate([t EXCEPT !.din[i] = [size |-> 0, addrs |-> [k \in 0 .. NDIRECT |-> 0]]], i)

\* itrunc()
Itrunc(s, i) ==
    LET t == Bfree(s, ({s.din[i].addrs[k] : k \in 0 .. NDIRECT}
                       \cup {Addr(s, i, bn) : bn \in NDIRECT .. MAXFILE - 1}) \ {0}) IN
    Iupdate([t EXCEPT !.din[i] = [size |-> 0, addrs |-> [k \in 0 .. NDIRECT |-> 0]]], i)

-----------------------------------------------------------------------------
(* Reading and writing. *)

\* The tests of readi() and writei(), in unsigned arithmetic.
BadRange(s, i, off, n) == off > s.din[i].size \/ (off + n) % UINT < off
TooLong(off, n) == (off + n) % UINT > MAXFILE * BSIZE

\* The chunks of the loop: the file's blocks from off to off + n.
Chunks(off, n) == IF n = 0 THEN <<>>
                  ELSE [j \in 1 .. (off + n - 1) \div BSIZE - off \div BSIZE + 1 |-> off \div BSIZE + j - 1]

\* readi(): the bytes it copies.
Readi(s, i, off, n) ==
    LET m == Smaller(n, s.din[i].size - off) IN
    [k \in 1 .. m |-> s.data[Addr(s, i, (off + k - 1) \div BSIZE)][(off + k - 1) % BSIZE]]

\* Broken: every chunk starts at the beginning of its block.
WriteChunkAligned(s, i, bn, off, n, v) ==
    Then(Bmap(s, i, bn), LAMBDA t :
        LET b == Addr(t, i, bn) IN
        IF ~Going(t) THEN t
        ELSE LogWrite([t EXCEPT !.data[b] = [k \in 0 .. BSIZE - 1 |->
                         IF k < Smaller(n, BSIZE) THEN v ELSE @[k]]], b))

\* One round of writei(): the bytes of off .. off + n - 1 that are in block bn.
WriteChunk(s, i, bn, off, n, v) ==
    Then(Bmap(s, i, bn), LAMBDA t :
        LET b == Addr(t, i, bn) IN
        IF ~Going(t) THEN t
        ELSE LogWrite([t EXCEPT !.data[b] = [k \in 0 .. BSIZE - 1 |->
                         IF bn * BSIZE + k \in off .. off + n - 1 THEN v ELSE @[k]]], b))

\* writei() of n bytes v, when the tests are passed.
Writei(s, i, off, n, v) ==
    LET Round(u, bn) == Then(u, LAMBDA t : WriteChunk(t, i, bn, off, n, v)) IN
    Then(FoldLeft(Round, s, Chunks(off, n)), LAMBDA t :
        IF ~Going(t) \/ n = 0 \/ off + n <= s.din[i].size THEN t
        ELSE Iupdate([t EXCEPT !.din[i].size = off + n], i))

\* Broken: no slop for a write that is not aligned.
MaxChunkTight == ((LOGSIZE - 1 - 1) \div 2) * BSIZE

\* filewrite(): what fits into one transaction.
MaxChunk == ((LOGSIZE - 1 - 1 - 2) \div 2) * BSIZE

-----------------------------------------------------------------------------
(* mkfs.c *)

\* The block for slot k of an inode, and for block fbn of a file: the next one,
\* freeblock, if there is none yet.
MkSlot(m, i, k) ==
    IF m.din[i].addrs[k] # 0 THEN m
    ELSE [m EXCEPT !.din[i].addrs[k] = m.freeblock, !.freeblock = @ + 1]

MkBmap(m, i, fbn) ==
    IF fbn < NDIRECT THEN MkSlot(m, i, fbn)
    ELSE LET t == MkSlot(m, i, NDIRECT) IN
         IF Addr(t, i, fbn) # 0 THEN t
         ELSE [t EXCEPT !.data[t.din[i].addrs[NDIRECT]][fbn - NDIRECT] = t.freeblock,
                        !.freeblock = @ + 1]

\* iappend() of n bytes v
Iappend(m, i, n, v) ==
    LET off == m.din[i].size
        Round(u, fbn) ==
            LET t == MkBmap(u, i, fbn) IN
            [t EXCEPT !.data[Addr(t, i, fbn)] = [k \in 0 .. BSIZE - 1 |->
                IF fbn * BSIZE + k \in off .. off + n - 1 THEN v ELSE @[k]]]
    IN [FoldLeft(Round, m, Chunks(off, n)) EXCEPT !.din[i].size = off + n]

\* balloc(usedblocks)
Bitmap(m) == 0 .. m.freeblock - 1

\* main(): a root directory of 2 + NFILES entries, one unit each, and files of
\* the given sizes; at last the root's size is rounded up.
Mkfs(sizes) ==
    LET empty == [freeblock |-> Usedblocks,
                  data |-> [b \in Block |-> Zero],
                  din |-> [i \in Inum |-> [size |-> 0, addrs |-> [k \in 0 .. NDIRECT |-> 0]]]]
        m == FoldLeft(LAMBDA u, i : Iappend(Iappend(u, ROOTINO, 1, i), i, sizes[i], i),
                      Iappend(empty, ROOTINO, 2, ROOTINO),
                      [j \in 1 .. NFILES |-> ROOTINO + j])
    IN [used |-> Bitmap(m), data |-> m.data, logged |-> {}, stop |-> "no",
        din |-> [m.din EXCEPT ![ROOTINO].size = (@ \div BSIZE + 1) * BSIZE]]

MkFiles == ROOTINO + 1 .. ROOTINO + NFILES

-----------------------------------------------------------------------------

NotWriting == [fd |-> NoFd, n |-> 0]

Init ==
    \E sizes \in [MkFiles -> FileSizes] :
        /\ fs = Mkfs(sizes)
        /\ file = [i \in Inum |->
                     IF i = ROOTINO
                     THEN [k \in 1 .. fs.din[i].size |-> IF k <= 2 THEN ROOTINO
                                                         ELSE IF k <= 2 + NFILES THEN ROOTINO + k - 2 ELSE 0]
                     ELSE [k \in 1 .. (IF i \in MkFiles THEN sizes[i] ELSE 0) |-> i]]
        /\ f \in [Fd -> [ip : Inum \ {ROOTINO}, off : {0}]]
        /\ todo = [p \in Proc |-> NotWriting]
        /\ calls = 0

Idle(d) == \A p \in Proc : todo[p].fd # d

\* close() and open(): the file starts at offset 0, of any inode.
Open(d, i) ==
    /\ Going(fs) /\ Idle(d)
    /\ f' = [f EXCEPT ![d] = [ip |-> i, off |-> 0]]
    /\ UNCHANGED <<fs, todo, file, calls>>

\* fileread(): the bytes of the inode at the offset, which moves on by them.
Fileread(d, n) ==
    /\ Going(fs) /\ ~BadRange(fs, f[d].ip, f[d].off, n)
    /\ f' = [f EXCEPT ![d].off = @ + Len(Readi(fs, f[d].ip, @, n))]
    /\ UNCHANGED <<fs, todo, file, calls>>

\* filewrite() is called.
Filewrite(p, d, n) ==
    /\ Going(fs) /\ todo[p] = NotWriting
    /\ calls < MaxCalls
    /\ calls' = calls + 1
    /\ todo' = [todo EXCEPT ![p] = [fd |-> d, n |-> n]]
    /\ UNCHANGED <<fs, f, file>>

\* What the bytes are when n bytes v have been written at off.
Overwritten(s, off, n, v) ==
    [k \in 1 .. (IF off + n > Len(s) THEN off + n ELSE Len(s)) |->
        IF k \in off + 1 .. off + n THEN v ELSE s[k]]

\* Broken: every chunk counts as a full one.
RestWhole(t, n1) == IF t.n = MaxChunk THEN NotWriting ELSE [t EXCEPT !.n = @ - MaxChunk]

\* What is left to write after n1 bytes; nothing after a failure.
Rest(t, n1) == IF t.n = n1 THEN NotWriting ELSE [t EXCEPT !.n = @ - n1]

\* One round of the loop of filewrite(), a transaction.  Without a commit (after
\* a panic) nothing of it stays.
FilewriteChunk(p, v) ==
    LET d == todo[p].fd
        i == f[d].ip
        off == f[d].off
        n1 == Smaller(todo[p].n, MaxChunk) IN
    /\ todo[p] # NotWriting /\ Going(fs)
    /\ UNCHANGED calls
    /\ IF BadRange(fs, i, off, n1) \/ TooLong(off, n1)
       THEN todo' = [todo EXCEPT ![p] = NotWriting] /\ UNCHANGED <<fs, f, file>>
       ELSE \E t \in {Writei(fs, i, off, n1, v)} :
            IF ~Going(t)
            THEN fs' = [fs EXCEPT !.stop = t.stop] /\ UNCHANGED <<f, todo, file>>
            ELSE /\ fs' = [t EXCEPT !.logged = {}]
                 /\ f' = [f EXCEPT ![d].off = off + n1]
                 /\ todo' = [todo EXCEPT ![p] = Rest(@, n1)]
                 /\ file' = [file EXCEPT ![i] = Overwritten(@, off, n1, v)]

\* Broken: the inode may still be open.
TruncateOpen(i) ==
    /\ Going(fs) /\ i # ROOTINO
    /\ calls < MaxCalls
    /\ calls' = calls + 1
    /\ fs' = [Itrunc(fs, i) EXCEPT !.logged = {}]
    /\ file' = [file EXCEPT ![i] = <<>>]
    /\ UNCHANGED <<f, todo>>

\* iput() of an inode that nothing refers to any more.
Truncate(i) ==
    /\ Going(fs) /\ i # ROOTINO
    /\ calls < MaxCalls
    /\ calls' = calls + 1
    /\ \A d \in Fd : f[d].ip # i
    /\ fs' = [Itrunc(fs, i) EXCEPT !.logged = {}]
    /\ file' = [file EXCEPT ![i] = <<>>]
    /\ UNCHANGED <<f, todo>>

Next ==
    \/ \E d \in Fd, i \in Inum \ {ROOTINO} : Open(d, i)
    \/ \E d \in Fd, n \in Counts : Fileread(d, n)
    \/ \E p \in Proc, d \in Fd, n \in Counts : Filewrite(p, d, n)
    \/ \E p \in Proc : FilewriteChunk(p, p)
    \/ \E i \in Inum : Truncate(i)
    \/ ~Going(fs) /\ UNCHANGED vars

Spec == Init /\ [][Next]_vars

-----------------------------------------------------------------------------

\* Types: sizes and offsets stay within a file's maximum, and a write never has
\* more to do than it was asked for.
TypeOK ==
    /\ fs.used \subseteq Block
    /\ fs.data \in [Block -> [0 .. BSIZE - 1 -> Nat]]
    /\ fs.din \in [Inum -> [size : 0 .. MAXFILE * BSIZE, addrs : [0 .. NDIRECT -> Block]]]
    /\ f \in [Fd -> [ip : Inum, off : 0 .. MAXFILE * BSIZE]]
    /\ todo \in [Proc -> [fd : Fd \cup {NoFd}, n : 0 .. Max(Counts)]]

\* What was written is what readi() returns, at every offset and length, across
\* direct and indirect blocks, in files of the image and of the kernel.
ReadsBack ==
    \A i \in Inum : \A off \in 0 .. fs.din[i].size : \A n \in Counts :
        Readi(fs, i, off, n) = SubSeq(file[i], off + 1, Smaller(off + n, Len(file[i])))

\* The places that name a block: slots of inodes and of indirect blocks.
Names == (Inum \X (0 .. NDIRECT)) \cup (Inum \X (NDIRECT + 1 .. MAXFILE))
Named(r) == IF r[2] <= NDIRECT THEN fs.din[r[1]].addrs[r[2]] ELSE Addr(fs, r[1], r[2] - 1)

\* No block is used twice and none is lost: the bitmap marks exactly the blocks
\* that one place in one inode names, and those before the data blocks.
BlocksOwned ==
    LET naming == {r \in Names : Named(r) # 0}
        named == {Named(r) : r \in naming} IN
    /\ Cardinality(named) = Cardinality(naming)
    /\ named \cap 0 .. Usedblocks - 1 = {}
    /\ fs.used = 0 .. Usedblocks - 1 \cup named

\* Every block below a file's size exists, so that bmap() never allocates in
\* readi(), which runs outside a transaction.
NoHoles ==
    \A i \in Inum : \A off \in 0 .. fs.din[i].size - 1 : Addr(fs, i, off \div BSIZE) # 0

\* A chunk of filewrite() and a truncation fit into the log with all the blocks
\* they touch, counted as log_write() counts them: no panic("too big a transaction").
FitsInLog ==
    /\ fs.stop # "too big a transaction"
    /\ \A i \in Inum : Itrunc(fs, i).stop # "too big a transaction"

\* The blocks that a file of n bytes needs, its indirect block included.
Needs(n) == LET k == (n + BSIZE - 1) \div BSIZE IN IF k > NDIRECT THEN k + 1 ELSE k

\* What a file will hold after the chunk that process p is about to write.
Wanted(p, i) ==
    LET o == f[todo[p].fd] IN
    IF o.ip # i THEN Len(file[i])
    ELSE Max({Len(file[i]), o.off + Smaller(todo[p].n, MaxChunk)})

\* balloc() searches all of the disk, and mkfs does not mark the log.  But as long
\* as the contents of all files fit the data blocks, no file gets a block of the
\* log and balloc() does not panic, after any writes, truncations and new uses of
\* their blocks: only a write for which the sb.nblocks are really too few does that.
LogIsLast ==
    fs.stop \in {"overrun", "out of blocks"} =>
        \E p \in {q \in Proc : todo[q] # NotWriting} :
            MapThenSumSet(LAMBDA i : Needs(Wanted(p, i)), Inum) > NBLOCKS

\* The offset of an open file stays inside the file, whatever other processes
\* do to it between two chunks; so no write is refused because of a gap.
OffsetInside == \A d \in Fd : f[d].off <= fs.din[f[d].ip].size

\* The blocks of all files and the bitmap fit together, files have no holes, and
\* offsets stay inside them; bfree() never panics("freeing free block").
InodeInv ==
    TypeOK /\ NoHoles /\ OffsetInside /\ BlocksOwned /\ fs.stop # "freeing free block"
=============================================================================
