--------------------------------- MODULE Fs ---------------------------------
(* Names, directories and the inode cache (fs.c), the file table (file.c) and  *)
(* the system calls on them (sysfile.c, exec.c, fork and exit in proc.c), with *)
(* any interleaving of the processes at the places where one can wait or be    *)
(* preempted: in begin_trans(), in ilock() and around every iput().            *)
(* What a process has still to do in its system call is a list of labels; a    *)
(* section of code between two of those places is one label and one action.    *)
(* log_write() has no lock of its own.  A process that gets there outside its  *)
(* own transaction takes part in another's; if the two meet, a block takes the *)
(* other's place in the log, and commit_trans() may copy one over the other.   *)
(* The model stops where they meet.                                            *)
EXTENDS Integers, FiniteSets, SequencesExt

CONSTANTS
    Proc, Initproc,      \* processes; the first one never exits
    Name,                \* names of directory entries besides . and ..
    Calls,               \* system calls each process makes: do, path, and new for link,
                         \* where a path is [abs : BOOLEAN, el : sequence of elements]
    Image,               \* the inodes at boot
    NINODES,             \* inodes on the disk are 1 .. NINODES - 1
    NINODE, NFILE, NOFILE,              \* param.h
    MaxCalls,            \* bound: system calls of a process in a behaviour
    NoProc

Dots == {".", ".."}
Elem == Name \cup Dots
Inum == 1 .. NINODES - 1
ROOTINO == 1
Slot == 1 .. NINODE                     \* icache.inode[]; 0 is a null pointer

ASSUME FsAssumption ==
    /\ NINODES > 2 /\ NINODE > 0 /\ NFILE > 0 /\ NOFILE > 0
    /\ \A x \in UNION {Calls[p] : p \in Proc} : x.path.el \in Seq(Elem) /\ x.new.el \in Seq(Elem)

VARIABLES
    disk,        \* the inodes and directories that system calls see
    committed,   \* what they will be after a crash: disk at the last commit
    log,         \* log.busy, with the process that is in the transaction
    icache,      \* slots: inum, ref, busy (the process with I_BUSY), valid, type, nlink
    file,        \* ftable: ref and ip
    pr,          \* processes: cwd, ofile, the call with its labels and pointers
    calls,       \* number of system calls each process has begun
    panic        \* why the kernel has stopped, or where the model does

vars == <<disk, committed, log, icache, file, pr, calls, panic>>

NoEntries == [e \in Elem |-> 0]
FreeInode == [type |-> "none", nlink |-> 0, dir |-> NoEntries]
Idle == [do |-> "none", path |-> [abs |-> FALSE, el |-> <<>>], new |-> [abs |-> FALSE, el |-> <<>>]]

Init ==
    /\ disk = Image
    /\ committed = disk
    /\ log = NoProc
    /\ icache = [k \in Slot |->
                   [inum |-> IF k = 1 THEN ROOTINO ELSE 0, ref |-> IF k = 1 THEN Cardinality(Proc) ELSE 0,
                    busy |-> NoProc, valid |-> FALSE, type |-> "none", nlink |-> 0]]
    /\ file = [x \in 1 .. NFILE |-> [ref |-> 0, ip |-> 0]]
    /\ pr = [p \in Proc |-> [cwd |-> 1, ofile |-> [fd \in 0 .. NOFILE - 1 |-> 0], call |-> Idle,
                             todo |-> <<>>, rest |-> <<>>, ip |-> 0, dp |-> 0, out |-> 0]]
    /\ calls = [p \in Proc |-> 0]
    /\ panic = "no"

-----------------------------------------------------------------------------
(* The inode cache.  An operator on a cache c gives the cache after it.        *)

\* iget(): the slot of the inode, or else the first free slot, or 0 (a panic).
SlotOf(c, i) ==
    LET cached == {k \in Slot : c[k].ref > 0 /\ c[k].inum = i}
        empty == {k \in Slot : c[k].ref = 0} IN
    IF cached # {} THEN Min(cached) ELSE IF empty # {} THEN Min(empty) ELSE 0

\* Broken: a slot is taken although the inode has one.
IgetAgain(c, i) ==
    [c EXCEPT ![Min({k \in Slot : c[k].ref = 0})] =
        [inum |-> i, ref |-> 1, busy |-> NoProc, valid |-> FALSE, type |-> "none", nlink |-> 0]]

Iget(c, i) ==
    LET k == SlotOf(c, i) IN
    IF c[k].ref > 0 THEN [c EXCEPT ![k].ref = @ + 1]
    ELSE [c EXCEPT ![k] = [inum |-> i, ref |-> 1, busy |-> NoProc, valid |-> FALSE,
                           type |-> "none", nlink |-> 0]]

\* idup()
Idup(c, k) == [c EXCEPT ![k].ref = @ + 1]

\* Broken: ilock() does not wait.
CanLockAlways(k) == TRUE

\* ilock(): waits until nobody has the lock, then reads the inode if necessary.
CanLock(k) == icache[k].busy = NoProc
Ilock(c, k, p) ==
    LET i == c[k].inum IN
    [c EXCEPT ![k].busy = p, ![k].valid = TRUE,
              ![k].type = IF c[k].valid THEN @ ELSE disk[i].type,
              ![k].nlink = IF c[k].valid THEN @ ELSE disk[i].nlink]
NoType(c, k) == ~icache[k].valid /\ c[k].type = "none"

\* iunlock()
Iunlock(c, k) == [c EXCEPT ![k].busy = NoProc]

\* A change of nlink with iupdate(): the slot, and the disk.
CacheLink(c, k, n) == [c EXCEPT ![k].nlink = @ + n]
DiskLink(d, c, k, n) == [d EXCEPT ![c[k].inum].nlink = c[k].nlink + n]

\* ialloc(): the first free inode of the disk, and what it becomes.
Unallocated == {i \in Inum : disk[i].type = "none"}
Ialloc(d, i, type) == [d EXCEPT ![i] = [FreeInode EXCEPT !.type = type]]

\* dirlookup() of name e in directory i, and dirlink() of inode j under it.
Dirlookup(i, e) == disk[i].dir[e]
Dirlink(d, i, e, j) == [d EXCEPT ![i].dir[e] = j]

-----------------------------------------------------------------------------
(* Steps of a system call. *)

At(p, l) == pr[p].todo # <<>> /\ Head(pr[p].todo) = l /\ panic = "no"

\* The process goes on with the labels s, its other fields as in r; without
\* labels the call is over.
Go(p, r, s) == pr' = [pr EXCEPT ![p] = [r EXCEPT !.todo = s, !.call = IF s = <<>> THEN Idle ELSE @]]
Pop(p) == Tail(pr[p].todo)

Panic(why) == panic' = why /\ UNCHANGED <<disk, committed, log, icache, file, pr, calls>>

\* What is left to do when the call has failed: commit_trans() if it is in a
\* transaction, and sys_link() takes its link back.
Failed(p) ==
    IF log # p THEN <<>>
    ELSE IF pr[p].call.do = "link" THEN <<"bad", "commit">> ELSE <<"commit">>

\* The call the process makes, as the list of its steps.
Steps(do) ==
    CASE do = "open"  -> <<"root", "namei", "open", "file">>
      [] do = "openw" -> <<"root", "namei", "open", "file">>
      [] do = "creat" -> <<"begin", "root", "parent", "create", "commit", "file">>
      [] do \in {"mkdir", "mknod"} -> <<"begin", "root", "parent", "create", "unlock", "commit">>
      [] do = "unlink" -> <<"root", "parent", "begin", "unlink", "commit">>
      [] do = "link"   -> <<"root", "namei", "begin", "link", "root", "parent", "entry", "commit">>
      [] do = "chdir"  -> <<"root", "namei", "chdir">>
      [] do = "exec"   -> <<"root", "namei", "exec">>
      [] do = "exit"   -> <<"closeall">>

Alive(p) == pr[p].cwd # 0

\* The process makes another system call.
Ready(p) ==
    /\ panic = "no"
    /\ Alive(p)
    /\ pr[p].todo = <<>>
    /\ calls[p] < MaxCalls
    /\ calls' = [calls EXCEPT ![p] = @ + 1]

Call(p, x) ==
    /\ Ready(p)
    /\ Go(p, [pr[p] EXCEPT !.call = x], Steps(x.do))
    /\ UNCHANGED <<disk, committed, log, icache, file, panic>>

\* The path that is being looked up: the second one once link has its inode.
Path(p) == IF pr[p].ip # 0 THEN pr[p].call.new ELSE pr[p].call.path
LastElem(p) == Last(Path(p).el)

\* namex(), before its loop.
Root(p) ==
    LET c == IF Path(p).abs THEN Iget(icache, ROOTINO) ELSE Idup(icache, pr[p].cwd) IN
    /\ At(p, "root")
    /\ IF Path(p).abs /\ SlotOf(icache, ROOTINO) = 0 THEN Panic("iget: no inodes")
       ELSE /\ icache' = c
            /\ Go(p, [pr[p] EXCEPT !.dp = IF Path(p).abs THEN SlotOf(icache, ROOTINO) ELSE pr[p].cwd,
                                   !.rest = Path(p).el], Pop(p))
            /\ UNCHANGED <<disk, committed, log, file, calls, panic>>

\* One round of the loop of namex(), from ilock() to iunlock(), and its end;
\* iput() follows.  parent tells nameiparent() from namei().
Walk(p, parent) ==
    LET k == pr[p].dp
        rest == pr[p].rest
        c == Ilock(icache, k, p)
        next == Dirlookup(c[k].inum, Head(rest))
        drop == [pr[p] EXCEPT !.out = k, !.dp = 0, !.rest = <<>>] IN
    /\ At(p, IF parent THEN "parent" ELSE "namei")
    /\ IF rest = <<>>
       THEN /\ IF parent THEN Go(p, drop, <<"put">> \o Failed(p))
                         ELSE Go(p, [pr[p] EXCEPT !.ip = k, !.dp = 0], Pop(p))
            /\ UNCHANGED <<disk, committed, log, icache, file, calls, panic>>
       ELSE /\ CanLock(k)
            /\ IF NoType(c, k) THEN Panic("ilock: no type")
               ELSE IF c[k].type # "DIR" \/ (next = 0 /\ ~(parent /\ Len(rest) = 1))
               THEN /\ icache' = Iunlock(c, k)
                    /\ Go(p, drop, <<"put">> \o Failed(p))
                    /\ UNCHANGED <<disk, committed, log, file, calls, panic>>
               ELSE IF parent /\ Len(rest) = 1
               THEN /\ icache' = Iunlock(c, k)
                    /\ Go(p, [pr[p] EXCEPT !.rest = <<>>], Pop(p))
                    /\ UNCHANGED <<disk, committed, log, file, calls, panic>>
               ELSE IF SlotOf(c, next) = 0 THEN Panic("iget: no inodes")
               ELSE /\ icache' = Iunlock(Iget(c, next), k)
                    /\ Go(p, [pr[p] EXCEPT !.out = k, !.dp = SlotOf(c, next), !.rest = Tail(rest)],
                          <<"put">> \o pr[p].todo)
                    /\ UNCHANGED <<disk, committed, log, file, calls, panic>>

\* Broken: begin_trans() does not wait for the transaction of another process.
BeginAtOnce(p) ==
    /\ At(p, "begin")
    /\ log' = p
    /\ Go(p, pr[p], Pop(p))
    /\ UNCHANGED <<disk, committed, icache, file, calls, panic>>

\* begin_trans() and commit_trans()
Begin(p) ==
    /\ At(p, "begin")
    /\ log = NoProc
    /\ log' = p
    /\ Go(p, pr[p], Pop(p))
    /\ UNCHANGED <<disk, committed, icache, file, calls, panic>>

\* Up to write_head(); then install_trans() and the rest.
Commit(p) ==
    /\ At(p, "commit")
    /\ committed' = disk
    /\ Go(p, pr[p], <<"install">> \o Pop(p))
    /\ UNCHANGED <<disk, log, icache, file, calls, panic>>

Install(p) ==
    /\ At(p, "install")
    /\ log' = NoProc
    /\ Go(p, pr[p], Pop(p))
    /\ UNCHANGED <<disk, committed, icache, file, calls, panic>>

-----------------------------------------------------------------------------
(* iput() of the slot out.  Its four sections: the test, itrunc(), the free    *)
(* inode, and the release of the slot.                                         *)

\* Broken: a file without a name is freed though others use it.
LastOneBlind(k) == icache[k].valid /\ icache[k].nlink = 0 /\ icache[k].busy = NoProc

\* The last reference to an inode without links.
LastOne(k) == icache[k].ref = 1 /\ icache[k].valid /\ icache[k].nlink = 0

Put(p) ==
    LET k == pr[p].out IN
    /\ At(p, "put")
    /\ IF LastOne(k)
       THEN IF icache[k].busy # NoProc THEN Panic("iput busy")
            ELSE /\ icache' = [icache EXCEPT ![k].busy = p]
                 /\ Go(p, pr[p], <<"trunc", "free", "release">> \o Pop(p))
                 /\ UNCHANGED <<disk, committed, log, file, calls, panic>>
       ELSE /\ icache' = [icache EXCEPT ![k].ref = @ - 1]
            /\ Go(p, [pr[p] EXCEPT !.out = 0], Pop(p))
            /\ UNCHANGED <<disk, committed, log, file, calls, panic>>

\* log_write() needs a transaction, of whatever process.
NoTrans == log = NoProc

\* Process p calls log_write() while the process whose transaction it is, is in
\* log_write() or commit_trans() as well.
Meets(p) == log # p /\ Panic("two in log_write")

\* It is alone there: its own transaction, or the other one is not yet at its commit.
Joins(p) == log = p \/ Head(pr[log].todo) # "install"

\* itrunc(): the entries of a directory are gone.
Trunc(p) ==
    /\ At(p, "trunc")
    /\ IF NoTrans THEN Panic("write outside of trans")
       ELSE \/ Meets(p)
            \/ /\ Joins(p)
               /\ disk' = [disk EXCEPT ![icache[pr[p].out].inum].dir = NoEntries]
               /\ Go(p, pr[p], Pop(p))
               /\ UNCHANGED <<committed, log, icache, file, calls, panic>>

\* ip->type = 0 and iupdate()
Free(p) ==
    LET k == pr[p].out IN
    /\ At(p, "free")
    /\ IF NoTrans THEN Panic("write outside of trans")
       ELSE \/ Meets(p)
            \/ /\ Joins(p)
               /\ disk' = [disk EXCEPT ![icache[k].inum].type = "none"]
               /\ icache' = [icache EXCEPT ![k].type = "none"]
               /\ Go(p, pr[p], Pop(p))
               /\ UNCHANGED <<committed, log, file, calls, panic>>

\* Broken: I_VALID stays set.
ReleaseValid(p) ==
    LET k == pr[p].out IN
    /\ At(p, "release")
    /\ icache' = [icache EXCEPT ![k].busy = NoProc, ![k].ref = @ - 1]
    /\ Go(p, [pr[p] EXCEPT !.out = 0], Pop(p))
    /\ UNCHANGED <<disk, committed, log, file, calls, panic>>

\* ip->flags = 0 and ip->ref--
Release(p) ==
    LET k == pr[p].out IN
    /\ At(p, "release")
    /\ icache' = [icache EXCEPT ![k].busy = NoProc, ![k].valid = FALSE, ![k].ref = @ - 1]
    /\ Go(p, [pr[p] EXCEPT !.out = 0], Pop(p))
    /\ UNCHANGED <<disk, committed, log, file, calls, panic>>

-----------------------------------------------------------------------------
(* create(), for open with O_CREATE, mkdir and mknod.                          *)

TypeOf(do) == CASE do = "creat" -> "FILE" [] do = "mkdir" -> "DIR" [] do = "mknod" -> "DEV"

\* Up to ialloc(), or up to iunlockput(dp) if the name is there.
Create(p) ==
    LET k == pr[p].dp
        c == Ilock(icache, k, p)
        old == Dirlookup(c[k].inum, LastElem(p))
        new == Min(Unallocated) IN
    /\ At(p, "create")
    /\ CanLock(k)
    /\ IF NoType(c, k) THEN Panic("ilock: no type")
       ELSE IF old = 0 /\ Unallocated = {} THEN Panic("ialloc: no inodes")
       ELSE IF SlotOf(c, IF old # 0 THEN old ELSE new) = 0 THEN Panic("iget: no inodes")
       ELSE IF old # 0
       THEN /\ icache' = Iunlock(Iget(c, old), k)
            /\ Go(p, [pr[p] EXCEPT !.ip = SlotOf(c, old), !.dp = 0, !.out = k],
                  <<"put", "exists">> \o Pop(p))
            /\ UNCHANGED <<disk, committed, log, file, calls, panic>>
       ELSE /\ disk' = Ialloc(disk, new, TypeOf(pr[p].call.do))
            /\ icache' = Iget(c, new)
            /\ Go(p, [pr[p] EXCEPT !.ip = SlotOf(c, new)], <<"newinode">> \o Pop(p))
            /\ UNCHANGED <<committed, log, file, calls, panic>>

\* The name exists: only creat of a file takes it, and keeps it locked.
Exists(p) ==
    LET k == pr[p].ip
        c == Ilock(icache, k, p) IN
    /\ At(p, "exists")
    /\ CanLock(k)
    /\ IF NoType(c, k) THEN Panic("ilock: no type")
       ELSE IF pr[p].call.do = "creat" /\ c[k].type = "FILE"
       THEN icache' = c /\ Go(p, pr[p], Pop(p)) /\ UNCHANGED <<disk, committed, log, file, calls, panic>>
       ELSE /\ icache' = Iunlock(c, k)
            /\ Go(p, [pr[p] EXCEPT !.ip = 0, !.out = k], <<"put", "commit">>)
            /\ UNCHANGED <<disk, committed, log, file, calls, panic>>

\* ilock() of the new inode and the rest of create().
NewInode(p) ==
    LET k == pr[p].ip
        dk == pr[p].dp
        c == Ilock(icache, k, p)
        n == IF c[k].type = "DIR" THEN 1 ELSE 0          \* dp->nlink++ for ".."
        i == c[k].inum
        di == c[dk].inum
        dots == [NoEntries EXCEPT !["."] = i, ![".."] = di] IN
    /\ At(p, "newinode")
    /\ CanLock(k)
    /\ IF NoType(c, k) THEN Panic("ilock: no type")
       ELSE /\ disk' = Dirlink([DiskLink(disk, c, dk, n) EXCEPT
                                    ![i].nlink = 1,
                                    ![i].dir = IF c[k].type = "DIR" THEN dots ELSE @],
                                di, LastElem(p), i)
            /\ icache' = Iunlock(CacheLink([c EXCEPT ![k].nlink = 1], dk, n), dk)
            /\ Go(p, [pr[p] EXCEPT !.dp = 0, !.out = dk], <<"put">> \o Pop(p))
            /\ UNCHANGED <<committed, log, file, calls, panic>>

\* iunlockput() of the new inode, in mkdir and mknod.
UnlockNew(p) ==
    /\ At(p, "unlock")
    /\ icache' = Iunlock(icache, pr[p].ip)
    /\ Go(p, [pr[p] EXCEPT !.ip = 0, !.out = pr[p].ip], <<"put">> \o Pop(p))
    /\ UNCHANGED <<disk, committed, log, file, calls, panic>>

-----------------------------------------------------------------------------
(* Open files. *)

\* sys_open() without O_CREATE: a directory can only be read.
Open(p) ==
    LET k == pr[p].ip
        c == Ilock(icache, k, p) IN
    /\ At(p, "open")
    /\ CanLock(k)
    /\ IF NoType(c, k) THEN Panic("ilock: no type")
       ELSE IF c[k].type = "DIR" /\ pr[p].call.do = "openw"
       THEN /\ icache' = Iunlock(c, k)
            /\ Go(p, [pr[p] EXCEPT !.ip = 0, !.out = k], <<"put">>)
            /\ UNCHANGED <<disk, committed, log, file, calls, panic>>
       ELSE icache' = c /\ Go(p, pr[p], Pop(p)) /\ UNCHANGED <<disk, committed, log, file, calls, panic>>

\* fdalloc(), filealloc() and filedup()
FreeFd(p) == {fd \in 0 .. NOFILE - 1 : pr[p].ofile[fd] = 0}
FreeFile == {x \in 1 .. NFILE : file[x].ref = 0}
Filedup(x, n) == [file[x] EXCEPT !.ref = @ + n]

\* The end of sys_open(): filealloc(), fdalloc(), and the inode is unlocked; it
\* is put if there is no file or descriptor.
OpenFile(p) ==
    LET k == pr[p].ip IN
    /\ At(p, "file")
    /\ icache' = Iunlock(icache, k)
    /\ IF FreeFile = {} \/ FreeFd(p) = {}
       THEN /\ Go(p, [pr[p] EXCEPT !.ip = 0, !.out = k], <<"put">>)
            /\ UNCHANGED file
       ELSE /\ file' = [file EXCEPT ![Min(FreeFile)] = [ref |-> 1, ip |-> k]]
            /\ Go(p, [pr[p] EXCEPT !.ip = 0, !.ofile[Min(FreeFd(p))] = Min(FreeFile)], Pop(p))
    /\ UNCHANGED <<disk, committed, log, calls, panic>>

\* fileclose() of a descriptor; what follows it in sys_close() and exit().
Close(p, fd, then) ==
    LET x == pr[p].ofile[fd]
        r == [pr[p] EXCEPT !.ofile[fd] = 0] IN
    /\ x # 0
    /\ IF file[x].ref > 1
       THEN /\ file' = [file EXCEPT ![x].ref = @ - 1]
            /\ Go(p, r, then)
       ELSE /\ file' = [file EXCEPT ![x] = [ref |-> 0, ip |-> 0]]
            /\ Go(p, [r EXCEPT !.out = file[x].ip], <<"begin", "put", "commit">> \o then)
    /\ UNCHANGED <<disk, committed, log, icache, calls, panic>>

SysClose(p, fd) == panic = "no" /\ pr[p].todo = <<>> /\ Close(p, fd, <<>>)

\* Broken: the new descriptor is not counted.
DupUncounted(p, fd) ==
    /\ Ready(p)
    /\ pr[p].ofile[fd] # 0 /\ FreeFd(p) # {}
    /\ Go(p, [pr[p] EXCEPT !.ofile[Min(FreeFd(p))] = pr[p].ofile[fd]], <<>>)
    /\ UNCHANGED <<disk, committed, log, icache, file, panic>>

\* sys_dup()
Dup(p, fd) ==
    /\ Ready(p)
    /\ pr[p].ofile[fd] # 0 /\ FreeFd(p) # {}
    /\ file' = [file EXCEPT ![pr[p].ofile[fd]] = Filedup(pr[p].ofile[fd], 1)]
    /\ Go(p, [pr[p] EXCEPT !.ofile[Min(FreeFd(p))] = pr[p].ofile[fd]], <<>>)
    /\ UNCHANGED <<disk, committed, log, icache, panic>>

\* fork(): filedup() of every open file, and idup() of the current directory.
Fork(p, q) ==
    /\ Ready(p)
    /\ ~Alive(q) /\ pr[q].todo = <<>>
    /\ file' = [x \in 1 .. NFILE |->
                   Filedup(x, Cardinality({fd \in 0 .. NOFILE - 1 : pr[p].ofile[fd] = x}))]
    /\ icache' = Idup(icache, pr[p].cwd)
    /\ Go(q, [pr[q] EXCEPT !.cwd = pr[p].cwd, !.ofile = pr[p].ofile], <<>>)
    /\ UNCHANGED <<disk, committed, log, panic>>

\* exit(): fileclose() of every open file, and then iput() of the current
\* directory.
Exit(p) ==
    LET fds == 0 .. NOFILE - 1 \ FreeFd(p) IN
    /\ At(p, "closeall")
    /\ IF fds # {} THEN Close(p, Min(fds), <<"closeall">>)
       ELSE /\ Go(p, [pr[p] EXCEPT !.cwd = 0, !.out = pr[p].cwd], <<"put">>)
            /\ UNCHANGED <<disk, committed, log, icache, file, calls, panic>>

\* exec(): the program is read while the inode is locked.
Exec(p) ==
    LET k == pr[p].ip
        c == Ilock(icache, k, p) IN
    /\ At(p, "exec")
    /\ CanLock(k)
    /\ IF NoType(c, k) THEN Panic("ilock: no type")
       ELSE /\ icache' = Iunlock(c, k)
            /\ Go(p, [pr[p] EXCEPT !.ip = 0, !.out = k], <<"put">>)
            /\ UNCHANGED <<disk, committed, log, file, calls, panic>>

\* sys_chdir(): the directory that is left is put.
Chdir(p) ==
    LET k == pr[p].ip
        c == Ilock(icache, k, p)
        dir == c[k].type = "DIR" IN
    /\ At(p, "chdir")
    /\ CanLock(k)
    /\ IF NoType(c, k) THEN Panic("ilock: no type")
       ELSE /\ icache' = Iunlock(c, k)
            /\ Go(p, [pr[p] EXCEPT !.ip = 0, !.out = IF dir THEN pr[p].cwd ELSE k,
                                   !.cwd = IF dir THEN k ELSE @], <<"put">>)
            /\ UNCHANGED <<disk, committed, log, file, calls, panic>>

-----------------------------------------------------------------------------
(* Links. *)

\* sys_link(), after begin_trans(): the link is counted before the name is made.
Link(p) ==
    LET k == pr[p].ip
        c == Ilock(icache, k, p) IN
    /\ At(p, "link")
    /\ CanLock(k)
    /\ IF NoType(c, k) THEN Panic("ilock: no type")
       ELSE IF c[k].type = "DIR"
       THEN /\ icache' = Iunlock(c, k)
            /\ Go(p, [pr[p] EXCEPT !.ip = 0, !.out = k], <<"put", "commit">>)
            /\ UNCHANGED <<disk, committed, log, file, calls, panic>>
       ELSE /\ disk' = DiskLink(disk, c, k, 1)
            /\ icache' = Iunlock(CacheLink(c, k, 1), k)
            /\ Go(p, pr[p], Pop(p))
            /\ UNCHANGED <<committed, log, file, calls, panic>>

\* dirlink() in the parent of the new name.
Entry(p) ==
    LET k == pr[p].dp
        c == Ilock(icache, k, p)
        d == c[k].inum
        old == Dirlookup(d, LastElem(p)) IN
    /\ At(p, "entry")
    /\ CanLock(k)
    /\ IF NoType(c, k) THEN Panic("ilock: no type")
       ELSE IF old # 0 /\ SlotOf(c, old) = 0 THEN Panic("iget: no inodes")
       ELSE /\ icache' = Iunlock(c, k)
            /\ disk' = IF old # 0 THEN disk ELSE Dirlink(disk, d, LastElem(p), icache[pr[p].ip].inum)
            /\ Go(p, [pr[p] EXCEPT !.dp = 0, !.out = k],
                  IF old # 0 THEN <<"put", "bad", "commit">> ELSE <<"put", "putip", "commit">>)
            /\ UNCHANGED <<committed, log, file, calls, panic>>

PutIp(p) ==
    /\ At(p, "putip")
    /\ Go(p, [pr[p] EXCEPT !.ip = 0, !.out = pr[p].ip], <<"put">> \o Pop(p))
    /\ UNCHANGED <<disk, committed, log, icache, file, calls, panic>>

\* bad: the link is taken back.
LinkBad(p) ==
    LET k == pr[p].ip
        c == Ilock(icache, k, p) IN
    /\ At(p, "bad")
    /\ CanLock(k)
    /\ disk' = DiskLink(disk, c, k, -1)
    /\ icache' = Iunlock(CacheLink(c, k, -1), k)
    /\ Go(p, [pr[p] EXCEPT !.ip = 0, !.out = k], <<"put">> \o Pop(p))
    /\ UNCHANGED <<committed, log, file, calls, panic>>

\* sys_unlink(), after begin_trans(): the parent is locked, and stays locked
\* until the entry is gone.
Unlink(p) ==
    LET k == pr[p].dp
        c == Ilock(icache, k, p)
        i == Dirlookup(c[k].inum, LastElem(p)) IN
    /\ At(p, "unlink")
    /\ CanLock(k)
    /\ IF NoType(c, k) THEN Panic("ilock: no type")
       ELSE IF LastElem(p) \in Dots \/ i = 0
       THEN /\ icache' = Iunlock(c, k)
            /\ Go(p, [pr[p] EXCEPT !.dp = 0, !.out = k], <<"put", "commit">>)
            /\ UNCHANGED <<disk, committed, log, file, calls, panic>>
       ELSE IF SlotOf(c, i) = 0 THEN Panic("iget: no inodes")
       ELSE /\ icache' = Iget(c, i)
            /\ Go(p, [pr[p] EXCEPT !.ip = SlotOf(c, i)], <<"victim">> \o Pop(p))
            /\ UNCHANGED <<disk, committed, log, file, calls, panic>>

IsDirEmpty(i) == \A n \in Name : disk[i].dir[n] = 0

\* The victim is locked too; the entry goes, and the parent.
Victim(p) ==
    LET k == pr[p].ip
        dk == pr[p].dp
        c == Ilock(icache, k, p)
        i == c[k].inum
        dir == c[k].type = "DIR"
        n == IF dir THEN -1 ELSE 0 IN
    /\ At(p, "victim")
    /\ CanLock(k)
    /\ IF NoType(c, k) THEN Panic("ilock: no type")
       ELSE IF c[k].nlink < 1 THEN Panic("unlink: nlink < 1")
       ELSE IF dir /\ ~IsDirEmpty(i)
       THEN /\ icache' = Iunlock(c, k)
            /\ Go(p, [pr[p] EXCEPT !.ip = 0, !.out = k], <<"put", "putdp", "commit">>)
            /\ UNCHANGED <<disk, committed, log, file, calls, panic>>
       ELSE /\ disk' = Dirlink(DiskLink(disk, c, dk, n), c[dk].inum, LastElem(p), 0)
            /\ icache' = Iunlock(CacheLink(c, dk, n), dk)
            /\ Go(p, [pr[p] EXCEPT !.dp = 0, !.out = dk], <<"put", "unlinked">> \o Pop(p))
            /\ UNCHANGED <<committed, log, file, calls, panic>>

\* bad: iunlockput(dp)
PutDp(p) ==
    /\ At(p, "putdp")
    /\ icache' = Iunlock(icache, pr[p].dp)
    /\ Go(p, [pr[p] EXCEPT !.dp = 0, !.out = pr[p].dp], <<"put">> \o Pop(p))
    /\ UNCHANGED <<disk, committed, log, file, calls, panic>>

\* Broken: nlink counts "." too.
UnlinkedTwice(p) ==
    LET k == pr[p].ip IN
    /\ At(p, "unlinked")
    /\ disk' = DiskLink(disk, icache, k, -2)
    /\ icache' = Iunlock(CacheLink(icache, k, -2), k)
    /\ Go(p, [pr[p] EXCEPT !.ip = 0, !.out = k], <<"put">> \o Pop(p))
    /\ UNCHANGED <<committed, log, file, calls, panic>>

\* ip->nlink--, and the inode is unlocked and put.
Unlinked(p) ==
    LET k == pr[p].ip IN
    /\ At(p, "unlinked")
    /\ disk' = DiskLink(disk, icache, k, -1)
    /\ icache' = Iunlock(CacheLink(icache, k, -1), k)
    /\ Go(p, [pr[p] EXCEPT !.ip = 0, !.out = k], <<"put">> \o Pop(p))
    /\ UNCHANGED <<committed, log, file, calls, panic>>

-----------------------------------------------------------------------------

Step(p) ==
    \/ Root(p) \/ Walk(p, TRUE) \/ Walk(p, FALSE) \/ Begin(p) \/ Commit(p) \/ Install(p)
    \/ Put(p) \/ Trunc(p) \/ Free(p) \/ Release(p)
    \/ Create(p) \/ Exists(p) \/ NewInode(p) \/ UnlockNew(p)
    \/ Open(p) \/ OpenFile(p) \/ Exit(p) \/ Exec(p) \/ Chdir(p)
    \/ Link(p) \/ Entry(p) \/ PutIp(p) \/ LinkBad(p)
    \/ Unlink(p) \/ Victim(p) \/ PutDp(p) \/ Unlinked(p)

Done == \A p \in Proc : pr[p].todo = <<>> /\ (calls[p] = MaxCalls \/ ~Alive(p))

Next ==
    \/ \E p \in Proc : Step(p)
    \/ \E p \in Proc : \E x \in Calls[p] : Call(p, x)
    \/ \E p \in Proc \ {Initproc} : Call(p, [Idle EXCEPT !.do = "exit"])
    \/ \E p \in Proc, fd \in 0 .. NOFILE - 1 : SysClose(p, fd) \/ Dup(p, fd)
    \/ \E p, q \in Proc : Fork(p, q)
    \/ (panic # "no" \/ Done) /\ UNCHANGED vars

Spec == Init /\ [][Next]_vars

-----------------------------------------------------------------------------

\* Types: link and reference counts never go below zero.
TypeOK ==
    /\ disk \in [Inum -> [type : {"none", "FILE", "DIR", "DEV"}, nlink : Nat, dir : [Elem -> 0 .. NINODES - 1]]]
    /\ log \in Proc \cup {NoProc}
    /\ icache \in [Slot -> [inum : 0 .. NINODES - 1, ref : Nat, busy : Proc \cup {NoProc}, valid : BOOLEAN,
                            type : {"none", "FILE", "DIR", "DEV"}, nlink : Nat]]
    /\ file \in [1 .. NFILE -> [ref : Nat, ip : 0 .. NINODE]]
    /\ \A p \in Proc : {pr[p].cwd, pr[p].ip, pr[p].dp, pr[p].out} \subseteq 0 .. NINODE
    /\ panic \in STRING

\* An inode has one copy in memory: two slots in use never hold the same inode.
OneSlot ==
    \A k, m \in Slot : icache[k].ref > 0 /\ icache[m].ref > 0 /\ icache[k].inum = icache[m].inum => k = m

\* Every pointer to a slot is counted once, through all error paths: current
\* directories, open files and the locals of system calls.  So a slot is never
\* recycled under a pointer, and none is lost.
RefsCounted ==
    /\ \A k \in Slot :
          icache[k].ref = Cardinality({p \in Proc : pr[p].cwd = k}) + Cardinality({p \in Proc : pr[p].ip = k})
                          + Cardinality({p \in Proc : pr[p].dp = k}) + Cardinality({p \in Proc : pr[p].out = k})
                          + Cardinality({x \in 1 .. NFILE : file[x].ip = k})
    /\ \A x \in 1 .. NFILE :
          file[x].ref = Cardinality({<<p, fd>> \in Proc \X (0 .. NOFILE - 1) : pr[p].ofile[fd] = x})

\* A copy that says it is valid and is not locked is what is on the disk, though
\* iput() frees the inode and ialloc() takes it again without the slot's lock.
CacheAgrees ==
    \A k \in Slot : icache[k].ref > 0 /\ icache[k].valid /\ icache[k].busy = NoProc =>
        icache[k].type = disk[icache[k].inum].type /\ icache[k].nlink = disk[icache[k].inum].nlink

\* Nobody frees an inode that an open file or a process's directory refers to.
InUseIsAllocated ==
    /\ \A p \in Proc : Alive(p) => disk[icache[pr[p].cwd].inum].type = "DIR"
    /\ \A x \in 1 .. NFILE : file[x].ref > 0 => disk[icache[file[x].ip].inum].type # "none"

\* The inodes that a path leads to, and the entries of their directories.
Tree(d) ==
    LET upTo[n \in 0 .. NINODES] ==
            IF n = 0 THEN {ROOTINO}
            ELSE upTo[n - 1] \cup ({d[i].dir[e] : i \in upTo[n - 1], e \in Name} \ {0})
    IN upTo[NINODES]
Entries(d) == {<<i, e>> \in Tree(d) \X Elem : d[i].dir[e] # 0}

\* Whenever the machine stops, the tree it comes back with is sound: every entry
\* of a directory leads to an inode that is allocated, and the inode's link
\* count is the number of its names; also after an iput() of one process has freed
\* an inode in the transaction of another, as long as the two never met in
\* log_write().  (A link into a removed directory, which only a process that is
\* still in it can make, leaves the count too high.)
TreeAfterCrash ==
    \A i \in Tree(committed) :
        LET names == {r \in Entries(committed) : r[2] # "." /\ committed[r[1]].dir[r[2]] = i} IN
        committed[i].type # "none" /\ committed[i].nlink = Cardinality(names)

\* None of the panics that stand for "this cannot happen" happens: what is left
\* are full tables, a write by an iput() outside its own transaction, and ".." of a
\* removed directory whose parent is removed too.  The second is never one of
\* sys_mkdir(), sys_mknod() or sys_close(), which put their inodes before they commit.
PanicKnown ==
    /\ panic \in {"no", "iget: no inodes", "ialloc: no inodes", "ilock: no type",
                  "write outside of trans", "two in log_write"}
    /\ panic = "ilock: no type" => \E p \in Proc : ".." \in Range(pr[p].call.path.el)
    /\ panic \in {"write outside of trans", "two in log_write"} =>
          \E p \in Proc : /\ pr[p].todo # <<>> /\ Head(pr[p].todo) \in {"trunc", "free"}
                          /\ log # p /\ pr[p].call.do \notin {"mkdir", "mknod", "none"}

\* The inode cache is coherent: one slot for an inode, equal to the disk's when it
\* is not locked, and never freed while it is in use.
InodeCacheInv == TypeOK /\ OneSlot /\ CacheAgrees /\ InUseIsAllocated
=============================================================================
