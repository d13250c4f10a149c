-------------------------------- MODULE Memory --------------------------------
(* Physical pages and address spaces: the page allocator (kalloc.c), page      *)
(* tables (vm.c), and what fork, exec, sbrk, exit and wait do with them        *)
(* (exec.c, proc.c).  Only the pool of free pages is shared, one kalloc() or   *)
(* kfree() at a time; each call is one action, on a pool of any size, and one  *)
(* kalloc() of a call may meet a pool that others have emptied for a moment.   *)
EXTENDS Integers, FiniteSets, SequencesExt

CONSTANTS
    Proc, Initproc,  \* slots of the process table; the one of init
    NPAGE,           \* pages of physical memory after the kernel
    NKPT,            \* page tables of the kernel's part of an address space
    PGSIZE, NPTENTRIES, KERNBASE,       \* mmu.h, memlayout.h
    UINT,            \* values of an unsigned int
    Programs,        \* files given to exec: magic, segs (vaddr, filesz, memsz), complete
    Refusals,        \* which kalloc() of a call finds no page, though there are some later; 0: none
    ArgSizes,        \* bytes of arguments on the stack
    Increments,      \* arguments of sbrk
    MaxLost          \* bound: calls are made while no more pages than this are lost

Page == 1 .. NPAGE                      \* 0 is a null pointer
VPN == 0 .. KERNBASE \div PGSIZE - 1    \* pages of user memory
PDE == 0 .. (Cardinality(VPN) - 1) \div NPTENTRIES
PDX(v) == v \div NPTENTRIES

PGROUNDUP(a) == ((a + PGSIZE - 1) \div PGSIZE) * PGSIZE

ASSUME MemoryAssumption ==
    /\ KERNBASE % (PGSIZE * NPTENTRIES) = 0
    /\ 2 * KERNBASE <= UINT
    /\ Initproc \in Proc
    /\ \A n \in Increments : -KERNBASE <= n /\ n <= KERNBASE
    /\ \A prog \in Programs : \A k \in DOMAIN prog.segs : prog.segs[k].vaddr + prog.segs[k].memsz < UINT

VARIABLES
    free,     \* how often each page is in kmem.freelist
    data,     \* what is in each page
    proc,     \* state, as (address space), sz, kstack
    pipes,    \* pages that pipes hold, any number of them
    lost,     \* history: pages that nothing refers to any more
    panic

vars == <<free, data, proc, pipes, lost, panic>>

\* An address space: the page directory, page tables of the kernel's part and of
\* user memory, and for each user page its physical page and PTE_U.
NoPte == [pa |-> 0, u |-> FALSE]
NoSpace == [pgdir |-> 0, kpt |-> {}, pt |-> [d \in PDE |-> 0], pte |-> [v \in VPN |-> NoPte]]

Unused == [state |-> "UNUSED", as |-> NoSpace, sz |-> 0, kstack |-> 0]

-----------------------------------------------------------------------------
(* Operators on s: free, data, lost, panic, the address space as that is being *)
(* worked on, mem (what kalloc returned), ok (no error so far), refuse (the    *)
(* number of the kalloc() that is to find no page).                            *)

\* Op applied to the value of s: one step after another.
Then(s, Op(_)) == CHOOSE r \in {Op(u) : u \in {s}} : TRUE

\* The steps Op for each member of a sequence, until one is not ok.
WhileOk(s, Op(_, _), seq) ==
    FoldLeft(LAMBDA u, v : Then(u, LAMBDA w : IF w.ok THEN Op(w, v) ELSE w), s, seq)

\* kalloc(); which of the free pages it returns makes no difference.
Kalloc(s) ==
    LET avail == {g \in Page : s.free[g] > 0}
        t == [s EXCEPT !.refuse = @ - 1] IN
    IF avail = {} \/ s.refuse = 1 THEN [t EXCEPT !.mem = 0]
    ELSE [t EXCEPT !.mem = Min(avail), !.free[Min(avail)] = @ - 1]

\* kfree(), which fills the page with junk.
Kfree(s, g) == [s EXCEPT !.free[g] = @ + 1, !.data[g] = "junk"]
KfreeAll(s, gs) == [s EXCEPT !.free = [g \in Page |-> IF g \in gs THEN @[g] + 1 ELSE @[g]],
                             !.data = [g \in Page |-> IF g \in gs THEN "junk" ELSE @[g]]]

Panics(s, why) == [s EXCEPT !.panic = why, !.ok = FALSE]
Fails(s) == [s EXCEPT !.ok = FALSE]
Lose(s, gs) == [s EXCEPT !.lost = @ \cup gs]

\* walkpgdir() with alloc: the page table of user page v, made if necessary.
Walkpgdir(s, v) ==
    IF s.as.pt[PDX(v)] # 0 THEN s
    ELSE Then(Kalloc(s), LAMBDA t :
         IF t.mem = 0 THEN Fails(t)
         ELSE [t EXCEPT !.as.pt[PDX(v)] = t.mem, !.data[t.mem] = "pagetable"])

\* mappages() of one user page.
Mappages(s, v, pa) ==
    Then(Walkpgdir(s, v), LAMBDA t :
        IF ~t.ok THEN t
        ELSE IF t.as.pte[v].pa # 0 THEN Panics(t, "remap")
        ELSE [t EXCEPT !.as.pte[v] = [pa |-> pa, u |-> TRUE]])

\* setupkvm(): if a page table cannot be allocated it returns 0, and the pages
\* it has are lost.
Setupkvm(s) ==
    LET Table(u, k) ==
            Then(Kalloc(u), LAMBDA w :
                IF w.mem = 0 THEN Fails(w)
                ELSE [w EXCEPT !.as.kpt = @ \cup {w.mem}, !.data[w.mem] = "pagetable"])
        Tables(t) == WhileOk([t EXCEPT !.as = [NoSpace EXCEPT !.pgdir = t.mem], !.data[t.mem] = "pagetable"],
                             Table, [k \in 1 .. NKPT |-> k])
    IN Then(Kalloc(s), LAMBDA t :
           IF t.mem = 0 THEN Fails(t)
           ELSE Then(Tables(t), LAMBDA w :
               IF w.ok THEN w ELSE [Lose(w, {w.as.pgdir} \cup w.as.kpt) EXCEPT !.as = NoSpace]))

\* Broken: the page that a size ends in is taken again.
PagesDown(from, to) ==
    LET first == from \div PGSIZE
        n == PGROUNDUP(to) \div PGSIZE - first IN
    [j \in 1 .. (IF n < 0 THEN 0 ELSE n) |-> first + j - 1]

\* The pages of a loop: a = PGROUNDUP(from); a < to; a += PGSIZE.
Pages(from, to) ==
    LET first == PGROUNDUP(from) \div PGSIZE
        n == PGROUNDUP(to) \div PGSIZE - first IN
    [j \in 1 .. (IF n < 0 THEN 0 ELSE n) |-> first + j - 1]

\* The size allocuvm() returns when it does not fail.
AllocSize(oldsz, newsz) == IF newsz < oldsz THEN oldsz ELSE newsz

Unmap(s, v) == [Kfree(s, s.as.pte[v].pa) EXCEPT !.as.pte[v] = NoPte]

\* deallocuvm() from oldsz to newsz, where newsz < oldsz <= KERNBASE.  Where
\* there is no page table it goes on NPTENTRIES pages further.
Deallocuvm(s, oldsz, newsz) ==
    LET Round(u, v) ==
            IF v < u.next THEN u
            ELSE IF u.s.as.pt[PDX(v)] = 0 THEN [u EXCEPT !.next = v + NPTENTRIES]
            ELSE IF u.s.as.pte[v].pa = 0 THEN u
            ELSE [u EXCEPT !.s = Unmap(u.s, v)]
    IN FoldLeft(LAMBDA u, v : Then(u, LAMBDA w : Round(w, v)), [s |-> s, next |-> 0], Pages(newsz, oldsz)).s

\* Broken: what was mapped is kept.
AllocuvmNoUndo(s, oldsz, newsz) == Fails(s)

\* allocuvm() out of memory: what was mapped is unmapped.
AllocuvmUndo(s, oldsz, newsz) == Fails(Deallocuvm(s, newsz, oldsz))

\* Broken: the page is not cleared.
MemsetNot(s) == s

\* memset() of a new page
Memset(s) == [s EXCEPT !.data[s.mem] = "zero"]

\* Broken: off by one.
TooBigByOne(newsz) == newsz > KERNBASE

TooBig(newsz) == newsz >= KERNBASE

\* allocuvm() from oldsz to newsz.  That mappages() failed is not noticed: its
\* page is lost, and the size is as if it were there.
Allocuvm(s, oldsz, newsz) ==
    LET Round(u, v) ==
            Then(Kalloc(u), LAMBDA t :
                IF t.mem = 0 THEN AllocuvmUndo(t, oldsz, newsz)
                ELSE Then(Mappages(Memset(t), v, t.mem), LAMBDA w :
                         IF w.panic # "no" \/ w.ok THEN w ELSE [Lose(w, {t.mem}) EXCEPT !.ok = TRUE]))
    IN IF TooBig(newsz) THEN Fails(s) ELSE WhileOk(s, Round, Pages(oldsz, newsz))

\* freevm(): the user pages, the page tables and the directory.
Freevm(s) ==
    Then(Deallocuvm(s, KERNBASE, 0), LAMBDA t :
        [KfreeAll(t, ({t.as.pt[d] : d \in PDE} \ {0}) \cup t.as.kpt \cup {t.as.pgdir}) EXCEPT !.as = NoSpace])

\* Broken: the page is not copied.
MemmoveNot(s, pa) == [s EXCEPT !.data[s.mem] = "zero"]

\* memmove() of a page to the new one
Memmove(s, pa) == [s EXCEPT !.data[s.mem] = s.data[pa]]

\* copyuvm(): a new address space with copies of the pages below sz.
Copyuvm(s, from, sz) ==
    LET Round(u, v) ==
            IF from.pte[v].pa = 0 THEN Panics(u, "copyuvm")
            ELSE Then(Kalloc(u), LAMBDA t :
                IF t.mem = 0 THEN Fails(Freevm(t))
                ELSE Then(Mappages(Memmove(t, from.pte[v].pa), v, t.mem), LAMBDA w :
                         IF w.ok \/ w.panic # "no" THEN w ELSE Fails(Freevm(Lose(w, {t.mem})))))
    IN Then(Setupkvm(s), LAMBDA d : WhileOk(d, Round, Pages(0, sz)))

-----------------------------------------------------------------------------
(* exec() *)

\* loaduvm() of a segment, into the pages that allocuvm() has made.  A page that
\* it could not map is read to physical address 0, which is no page of the pool.
Loaduvm(s, seg, complete) ==
    LET Round(u, v) ==
            IF u.as.pt[PDX(v)] = 0 THEN Panics(u, "loaduvm")
            ELSE IF ~complete THEN Fails(u)
            ELSE [u EXCEPT !.data = [g \in Page |-> IF g = u.as.pte[v].pa THEN "text" ELSE @[g]]]
    IN IF seg.vaddr % PGSIZE # 0 THEN Panics(s, "unaligned")
       ELSE WhileOk(s, Round, Pages(seg.vaddr, seg.vaddr + seg.filesz))

\* Where the size is after the first n segments.
SizeAfter(segs, n) == FoldLeft(LAMBDA sz, seg : AllocSize(sz, seg.vaddr + seg.memsz), 0, SubSeq(segs, 1, n))

\* Segment n of a program.
LoadSegment(s, prog, n) ==
    LET seg == prog.segs[n] IN
    IF seg.memsz < seg.filesz \/ SizeAfter(prog.segs, n) = 0 THEN Fails(s)
    ELSE Then(Allocuvm(s, SizeAfter(prog.segs, n - 1), seg.vaddr + seg.memsz), LAMBDA t :
        IF t.ok THEN Loaduvm(t, seg, prog.complete) ELSE t)

\* clearpteu()
Clearpteu(s, v) ==
    IF s.as.pt[PDX(v)] = 0 THEN Panics(s, "clearpteu") ELSE [s EXCEPT !.as.pte[v].u = FALSE]

\* copyout() to va .. va + len - 1, page by page.  Where the page table is missing
\* uva2ka() reads its entry at address 0, the first word of the calling program:
\* what comes of that is not described, and the model stops as if it panicked.
Copyout(s, va, len) ==
    LET Round(u, v) ==
            IF u.as.pt[PDX(v)] = 0 THEN Panics(u, "uva2ka")
            ELSE IF u.as.pte[v].pa = 0 \/ ~u.as.pte[v].u THEN Fails(u)
            ELSE [u EXCEPT !.data[u.as.pte[v].pa] = "args"]
        first == va \div PGSIZE
    IN WhileOk(s, Round, [j \in 1 .. (va + len - 1) \div PGSIZE - first + 1 |-> first + j - 1])

\* The new address space of exec(): the segments, then an inaccessible page and
\* a page for the stack, with the arguments.  It is given up if ok is FALSE.
ExecBase(prog) == PGROUNDUP(SizeAfter(prog.segs, Len(prog.segs)))
ExecTop(prog) == ExecBase(prog) + 2 * PGSIZE

ExecImage(s, prog, args) ==
    LET Stage(u, n) ==
            CASE n = 1 -> IF prog.magic THEN Setupkvm(u) ELSE Fails(u)
              [] n = 2 -> WhileOk(u, LAMBDA w, k : LoadSegment(w, prog, k), [k \in 1 .. Len(prog.segs) |-> k])
              [] n = 3 -> Allocuvm(u, ExecBase(prog), ExecTop(prog))
              [] n = 4 -> Clearpteu(u, ExecBase(prog) \div PGSIZE)
              [] n = 5 -> Copyout(u, ExecTop(prog) - args, args)
    IN WhileOk(s, Stage, <<1, 2, 3, 4, 5>>)

-----------------------------------------------------------------------------

State(as, refuse) ==
    [free |-> free, data |-> data, lost |-> lost, panic |-> panic, as |-> as, mem |-> 0, ok |-> TRUE, refuse |-> refuse]

\* The shared state is that of s, and the processes are ps.
Becomes(s, ps) ==
    /\ \E t \in {s} : free' = t.free /\ data' = t.data /\ lost' = t.lost /\ panic' = t.panic
    /\ proc' = ps /\ UNCHANGED pipes

\* userinit(): the first process, with one page of code, by inituvm().
Init ==
    /\ pipes \in {n .. NPAGE : n \in NKPT + 5 .. NPAGE + 1}
    /\ lost = {}
    /\ panic = "no"
    /\ \E k \in {Kalloc([free |-> [g \in Page |-> IF g \in pipes THEN 0 ELSE 1], data |-> [g \in Page |-> "junk"],
                         lost |-> {}, panic |-> "no", as |-> NoSpace, mem |-> 0, ok |-> TRUE, refuse |-> 0])} :
       \E c \in {Kalloc(Setupkvm(k))} :
       \E m \in {Mappages([c EXCEPT !.data[c.mem] = "text"], 0, c.mem)} :
          /\ free = m.free
          /\ data = m.data
          /\ proc = [[p \in Proc |-> Unused] EXCEPT ![Initproc] =
                       [state |-> "LIVE", as |-> m.as, sz |-> PGSIZE, kstack |-> k.mem]]

Running == panic = "no" /\ Cardinality(lost) <= MaxLost

\* A process that makes system calls has its code in memory.
HasCode(p) == proc[p].state = "LIVE" /\ proc[p].as.pte[0].pa # 0

CanCall(p) == Running /\ HasCode(p)

\* growproc()
Growproc(p, n, refuse) ==
    LET sz == proc[p].sz
        new == (sz + n) % UINT IN
    /\ CanCall(p)
    /\ \/ /\ n > 0
          /\ \E s \in {Allocuvm(State(proc[p].as, refuse), sz, new)} :
                Becomes(s, [proc EXCEPT ![p].as = s.as, ![p].sz = IF s.ok THEN new ELSE @])
       \/ /\ n < 0 /\ new < sz
          /\ \E s \in {Deallocuvm(State(proc[p].as, 0), sz, new)} :
                Becomes(s, [proc EXCEPT ![p].as = s.as, ![p].sz = IF new # 0 THEN new ELSE @])
       \/ /\ n < 0 /\ new >= sz
          /\ UNCHANGED vars

\* fork(): allocproc()'s kernel stack, and a copy of the memory.
Fork(p, q, refuse) ==
    /\ CanCall(p)
    /\ proc[q].state = "UNUSED"
    /\ \E k \in {Kalloc(State(NoSpace, refuse))} :
          IF k.mem = 0 THEN UNCHANGED vars
          ELSE \E c \in {Copyuvm(k, proc[p].as, proc[p].sz)} :
               IF c.panic # "no" THEN Becomes(c, proc)
               ELSE IF ~c.ok THEN Becomes(Kfree(c, k.mem), proc)
               ELSE Becomes(c, [proc EXCEPT ![q] = [state |-> "LIVE", as |-> c.as, sz |-> proc[p].sz,
                                                    kstack |-> k.mem]])

\* exec(): the old memory is given up when nothing can fail any more.
Exec(p, prog, args, refuse) ==
    /\ CanCall(p)
    /\ \E s \in {ExecImage(State(NoSpace, refuse), prog, args)} :
          IF s.panic # "no" THEN Becomes(s, proc)
          ELSE IF s.ok THEN Becomes(Freevm([s EXCEPT !.as = proc[p].as]),
                                    [proc EXCEPT ![p].as = s.as, ![p].sz = ExecTop(prog)])
          ELSE Becomes(IF s.as.pgdir = 0 THEN s ELSE Freevm(s), proc)

\* exit(): also when the process has run into memory that it does not have.
Exit(p) ==
    /\ Running
    /\ proc[p].state = "LIVE"
    /\ proc' = [proc EXCEPT ![p].state = "ZOMBIE"]
    /\ UNCHANGED <<free, data, pipes, lost, panic>>

\* Broken: the kernel stack is not freed.
WaitKeeps(q) ==
    /\ Running
    /\ proc[q].state = "ZOMBIE"
    /\ Becomes(Freevm(State(proc[q].as, 0)), [proc EXCEPT ![q] = Unused])

\* wait() of the parent of q
Wait(q) ==
    /\ Running
    /\ proc[q].state = "ZOMBIE"
    /\ Becomes(Freevm(Kfree(State(proc[q].as, 0), proc[q].kstack)), [proc EXCEPT ![q] = Unused])

\* init does not call sbrk, and does not exit.
Next ==
    \/ \E p \in Proc \ {Initproc}, n \in Increments, k \in Refusals : Growproc(p, n, k)
    \/ \E p, q \in Proc, k \in Refusals : Fork(p, q, k)
    \/ \E p \in Proc, prog \in Programs, args \in ArgSizes, k \in Refusals : Exec(p, prog, args, k)
    \/ \E p \in Proc \ {Initproc} : Exit(p)
    \/ \E q \in Proc : Wait(q)
    \/ ~Running /\ UNCHANGED vars

Spec == Init /\ [][Next]_vars

-----------------------------------------------------------------------------

\* Types: the size of a process never reaches KERNBASE.
TypeOK ==
    /\ free \in [Page -> Nat]
    /\ lost \subseteq Page
    /\ \A p \in Proc :
          /\ proc[p].state \in {"UNUSED", "LIVE", "ZOMBIE"}
          /\ proc[p].sz \in 0 .. KERNBASE - 1
          /\ proc[p].as.pte \in [VPN -> [pa : Page \cup {0}, u : BOOLEAN]]

\* How many places in address spaces and processes refer to a page.
Uses(g) ==
    LET In(p) == (IF proc[p].kstack = g THEN 1 ELSE 0) + (IF proc[p].as.pgdir = g THEN 1 ELSE 0)
                 + (IF g \in proc[p].as.kpt THEN 1 ELSE 0)
                 + Cardinality({d \in PDE : proc[p].as.pt[d] = g})
                 + Cardinality({v \in VPN : proc[p].as.pte[v].pa = g})
    IN FoldSet(LAMBDA p, n : n + In(p), 0, Proc)

\* Through every failure of an allocation, in the middle of fork, exec or sbrk,
\* each page is in one place: free, or used once.  Only pages for which a page
\* table could not be allocated are lost.
PagesAccounted ==
    panic = "no" => \A g \in Page : free[g] + Uses(g) + Cardinality({g} \cap pipes) + Cardinality({g} \cap lost) = 1

\* A process never sees a page that was freed or is a page table.
UserMemoryIsData ==
    \A p \in Proc, v \in VPN :
        proc[p].as.pte[v].pa # 0 => data[proc[p].as.pte[v].pa] \in {"zero", "text", "args"}

\* As long as no page table was refused, what is mapped is what the size says;
\* a process that gave away all of its memory, whose size is then out of date,
\* makes no call any more.
SizeIsMapped ==
    \A p \in Proc : HasCode(p) /\ lost = {} =>
        {v \in VPN : proc[p].as.pte[v].pa # 0} = 0 .. PGROUNDUP(proc[p].sz) \div PGSIZE - 1

\* The kernel panics over its page tables only after a page table was refused
\* before, in allocuvm(); but also, with all its memory, when it is given a program
\* with a segment that does not start at a page, which exec() does not look at.
PanicNeedsLoss == panic \notin {"no", "unaligned"} => lost # {}

\* A new process has a copy of the memory of the process that forks, in pages
\* of its own.
ForkCopies ==
    [][\A q \in Proc : proc[q].state = "UNUSED" /\ proc'[q].state = "LIVE" =>
          \E p \in Proc : /\ proc[p].sz = proc'[q].sz
                          /\ \A v \in Range(Pages(0, proc[p].sz)) :
                                data'[proc'[q].as.pte[v].pa] = data[proc[p].as.pte[v].pa]]_vars

\* Every page of memory has one place, and processes see only pages of data.
PageInv == TypeOK /\ PagesAccounted /\ UserMemoryIsData
=============================================================================
