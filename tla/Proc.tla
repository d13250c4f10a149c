-------------------------------- MODULE Proc --------------------------------
(* The process table (proc.c): allocproc, fork, exit, wait, kill, yield, sched *)
(* and the scheduler of each CPU, with ptable.lock passed across swtch().  A   *)
(* CPU executes either its scheduler or, on the kernel stack of a slot, the    *)
(* process of that slot.  A critical section that ends with release() is one   *)
(* action; one that ends in sched() keeps the lock until the scheduler gives   *)
(* it up.  fork() fills its new slot without the lock, in several actions, and *)
(* a timer interrupt may make it yield() between any two of them.              *)
(* Faults of user code (trap.c) are processes that exit.  trap() tests killed  *)
(* before a system call without the lock, so a process that is killed after    *)
(* the test still makes the call.                                              *)
EXTENDS Naturals, FiniteSets

CONSTANTS
    NPROC,
    CPU,
    Scheduler,   \* a CPU runs its scheduler
    NoCPU,       \* ptable.lock is free
    MaxPid       \* bound: no more forks when nextpid gets here

ASSUME ProcAssumption ==
    /\ NPROC \in Nat \ {0, 1} /\ MaxPid \in Nat \ {0, 1}
    /\ Scheduler \notin Nat /\ NoCPU \notin CPU

VARIABLES
    state, pid, parent, killed, chan,   \* struct proc; 0 is no process
    stack,     \* kernel stacks that the slot owns: p->kstack
    nextpid,
    on,        \* what each CPU executes: a slot or its scheduler
    lock,      \* ptable.lock: the CPU that holds it, or NoCPU
    pc,        \* where a process is in the kernel
    np,        \* fork(): the slot of the new process
    panicked   \* exit() by init

shared == <<nextpid, panicked>>
vars == <<state, pid, parent, killed, chan, stack, on, lock, pc, np, shared>>

Slots == 1 .. NPROC
initproc == 1
States == {"UNUSED", "EMBRYO", "SLEEPING", "RUNNABLE", "RUNNING", "ZOMBIE"}
\* "user": in user space or about to make a system call; "alloc", "copy", "ready":
\* steps of fork(); "wait", "exit": in the sched() that wait() or exit() called;
\* "forkret": not yet run.
PCs == {"user", "alloc", "copy", "ready", "wait", "exit", "forkret"}

\* After userinit(): the other slots are zero.
Init ==
    /\ state = [s \in Slots |-> IF s = initproc THEN "RUNNABLE" ELSE "UNUSED"]
    /\ pid = [s \in Slots |-> IF s = initproc THEN 1 ELSE 0]
    /\ stack = [s \in Slots |-> IF s = initproc THEN 1 ELSE 0]
    /\ parent = [s \in Slots |-> 0]
    /\ chan = [s \in Slots |-> 0]
    /\ killed = [s \in Slots |-> 0]
    /\ pc = [s \in Slots |-> "forkret"]
    /\ np = [s \in Slots |-> 0]
    /\ nextpid = 2
    /\ on = [c \in CPU |-> Scheduler]
    /\ lock = NoCPU
    /\ panicked = FALSE

\* CPU c executes the process in slot s.
Runs(c, s) == on[c] = s /\ state[s] = "RUNNING" /\ ~panicked

\* The same with interrupts on: it is not on its way out of sched().
Goes(c, s) == Runs(c, s) /\ lock # c

-----------------------------------------------------------------------------
(* Scheduling. *)

\* scheduler(): acquire ptable.lock, or go on with the loop; choose a process.
Run(c, s) ==
    /\ on[c] = Scheduler /\ lock \in {NoCPU, c} /\ ~panicked
    /\ state[s] = "RUNNABLE"
    /\ state' = [state EXCEPT ![s] = "RUNNING"]
    /\ on' = [on EXCEPT ![c] = s]
    /\ lock' = c
    /\ UNCHANGED <<pid, parent, killed, chan, stack, pc, np, shared>>

\* scheduler(): the end of the loop.
SchedulerRelease(c) ==
    /\ on[c] = Scheduler /\ lock = c
    /\ lock' = NoCPU
    /\ UNCHANGED <<state, pid, parent, killed, chan, stack, on, pc, np, shared>>

\* sched(): swtch() to the scheduler, which now holds ptable.lock.
Sched(c, s) ==
    /\ on[c] = s /\ state[s] # "RUNNING"
    /\ on' = [on EXCEPT ![c] = Scheduler]
    /\ UNCHANGED <<state, pid, parent, killed, chan, stack, lock, pc, np, shared>>

\* Where a timer interrupt can find a process: in user space and, since system
\* calls leave interrupts on, in the middle of fork().
Preemptible == {"user", "alloc", "copy", "ready"}

\* Broken: yield() does not take ptable.lock.
YieldUnlocked(c, s) ==
    /\ Runs(c, s) /\ pc[s] \in Preemptible /\ lock = NoCPU
    /\ state' = [state EXCEPT ![s] = "RUNNABLE"]
    /\ UNCHANGED <<pid, parent, killed, chan, stack, on, lock, pc, np, shared>>

\* trap() on a timer interrupt: yield(), up to sched().
Yield(c, s) ==
    /\ Runs(c, s) /\ pc[s] \in Preemptible /\ lock = NoCPU
    /\ lock' = c
    /\ state' = [state EXCEPT ![s] = "RUNNABLE"]
    /\ UNCHANGED <<pid, parent, killed, chan, stack, on, pc, np, shared>>

\* The rest of yield(), and forkret(): release(&ptable.lock).
Resume(c, s) ==
    /\ Runs(c, s) /\ pc[s] \in Preemptible \cup {"forkret"} /\ lock = c
    /\ lock' = NoCPU
    /\ pc' = [pc EXCEPT ![s] = IF @ = "forkret" THEN "user" ELSE @]
    /\ UNCHANGED <<state, pid, parent, killed, chan, stack, on, np, shared>>

-----------------------------------------------------------------------------
(* fork(). *)

\* Broken: allocproc() does not mark the slot that it found.
ForkAllocUnmarked(c, s) ==
    /\ Runs(c, s) /\ pc[s] = "user" /\ lock = NoCPU
    /\ nextpid < MaxPid
    /\ \E t \in Slots :
          /\ state[t] = "UNUSED" /\ \A u \in 1 .. (t - 1) : state[u] # "UNUSED"
          /\ pid' = [pid EXCEPT ![t] = nextpid]
          /\ np' = [np EXCEPT ![s] = t]
    /\ nextpid' = nextpid + 1
    /\ pc' = [pc EXCEPT ![s] = "alloc"]
    /\ UNCHANGED <<state, parent, killed, chan, stack, on, lock, panicked>>

\* allocproc(): the first UNUSED slot, if there is one.
ForkAlloc(c, s) ==
    /\ Runs(c, s) /\ pc[s] = "user" /\ lock = NoCPU
    /\ nextpid < MaxPid
    /\ \E t \in Slots :
          /\ state[t] = "UNUSED" /\ \A u \in 1 .. (t - 1) : state[u] # "UNUSED"
          /\ state' = [state EXCEPT ![t] = "EMBRYO"]
          /\ pid' = [pid EXCEPT ![t] = nextpid]
          /\ np' = [np EXCEPT ![s] = t]
    /\ nextpid' = nextpid + 1
    /\ pc' = [pc EXCEPT ![s] = "alloc"]
    /\ UNCHANGED <<parent, killed, chan, stack, on, lock, panicked>>

\* fork() gives up: np->state = UNUSED.
Abandon(s) ==
    /\ state' = [state EXCEPT ![np[s]] = "UNUSED"]
    /\ np' = [np EXCEPT ![s] = 0]
    /\ pc' = [pc EXCEPT ![s] = "user"]
    /\ UNCHANGED <<pid, parent, killed, chan, on, lock, shared>>

\* allocproc(): allocate the kernel stack; the new process starts at forkret.
ForkStack(c, s) ==
    /\ Goes(c, s) /\ pc[s] = "alloc"
    /\ stack' = [stack EXCEPT ![np[s]] = @ + 1]
    /\ pc' = [pc EXCEPT ![s] = "copy", ![np[s]] = "forkret"]
    /\ UNCHANGED <<state, pid, parent, killed, chan, on, lock, np, shared>>

\* Broken: a stack that was not allocated is freed.
ForkStackFailsFreeing(c, s) ==
    /\ Goes(c, s) /\ pc[s] = "alloc"
    /\ stack' = [stack EXCEPT ![np[s]] = @ - 1]
    /\ Abandon(s)

\* allocproc(): kalloc() has no page.
ForkStackFails(c, s) ==
    /\ Goes(c, s) /\ pc[s] = "alloc"
    /\ Abandon(s)
    /\ UNCHANGED stack

\* fork(): copyuvm(), then np->parent = proc and the open files.
ForkCopy(c, s) ==
    /\ Goes(c, s) /\ pc[s] = "copy"
    /\ parent' = [parent EXCEPT ![np[s]] = s]
    /\ pc' = [pc EXCEPT ![s] = "ready"]
    /\ UNCHANGED <<state, pid, killed, chan, stack, on, lock, np, shared>>

\* Broken: fork() keeps the stack of a process it could not create.
ForkCopyFailsLeaking(c, s) ==
    /\ Goes(c, s) /\ pc[s] = "copy"
    /\ Abandon(s)
    /\ UNCHANGED stack

\* fork(): copyuvm() has no memory.
ForkCopyFails(c, s) ==
    /\ Goes(c, s) /\ pc[s] = "copy"
    /\ stack' = [stack EXCEPT ![np[s]] = @ - 1]
    /\ Abandon(s)

\* fork(): np->state = RUNNABLE.
ForkDone(c, s) ==
    /\ Goes(c, s) /\ pc[s] = "ready"
    /\ state' = [state EXCEPT ![np[s]] = "RUNNABLE"]
    /\ np' = [np EXCEPT ![s] = 0]
    /\ pc' = [pc EXCEPT ![s] = "user"]
    /\ UNCHANGED <<pid, parent, killed, chan, stack, on, lock, shared>>

-----------------------------------------------------------------------------
(* exit(), wait() and kill(). *)

Asleep(st, s, ch) == st[s] = "SLEEPING" /\ chan[s] = ch

Children(s) == {t \in Slots : parent[t] = s}

\* Broken: init is not told of the zombies it inherits.
ExitQuietly(c, s) ==
    /\ Runs(c, s) /\ pc[s] = "user" /\ lock = NoCPU /\ s # initproc
    /\ state' = [t \in Slots |-> IF t = s THEN "ZOMBIE"
                                 ELSE IF Asleep(state, t, parent[s])
                                 THEN "RUNNABLE" ELSE state[t]]
    /\ parent' = [t \in Slots |-> IF parent[t] = s THEN initproc ELSE parent[t]]
    /\ lock' = c
    /\ pc' = [pc EXCEPT ![s] = "exit"]
    /\ UNCHANGED <<pid, killed, chan, stack, on, np, shared>>

\* Broken: exit() does not wake the parent.
ExitSilent(c, s) ==
    /\ Runs(c, s) /\ pc[s] = "user" /\ lock = NoCPU /\ s # initproc
    /\ LET heirs == \E t \in Children(s) : state[t] = "ZOMBIE"
       IN  state' = [t \in Slots |->
                        IF t = s THEN "ZOMBIE"
                        ELSE IF heirs /\ Asleep(state, t, initproc)
                        THEN "RUNNABLE" ELSE state[t]]
    /\ parent' = [t \in Slots |-> IF parent[t] = s THEN initproc ELSE parent[t]]
    /\ lock' = c
    /\ pc' = [pc EXCEPT ![s] = "exit"]
    /\ UNCHANGED <<pid, killed, chan, stack, on, np, shared>>

\* Broken: the children of a process stay its children.
ExitOrphaning(c, s) ==
    /\ Runs(c, s) /\ pc[s] = "user" /\ lock = NoCPU /\ s # initproc
    /\ state' = [t \in Slots |-> IF t = s THEN "ZOMBIE"
                                 ELSE IF Asleep(state, t, parent[s])
                                 THEN "RUNNABLE" ELSE state[t]]
    /\ lock' = c
    /\ pc' = [pc EXCEPT ![s] = "exit"]
    /\ UNCHANGED <<pid, parent, killed, chan, stack, on, np, shared>>

\* Broken: exit() releases ptable.lock before it leaves its stack.
ExitUnlocked(c, s) ==
    /\ Runs(c, s) /\ pc[s] = "user" /\ lock = NoCPU /\ s # initproc
    /\ state' = [t \in Slots |-> IF t = s THEN "ZOMBIE"
                                 ELSE IF Asleep(state, t, parent[s])
                                 THEN "RUNNABLE" ELSE state[t]]
    /\ parent' = [t \in Slots |-> IF parent[t] = s THEN initproc ELSE parent[t]]
    /\ pc' = [pc EXCEPT ![s] = "exit"]
    /\ UNCHANGED <<pid, killed, chan, stack, on, lock, np, shared>>

\* exit(), with the files closed: wake the parent, pass the children to init,
\* and init's attention to those that are zombies; become one.
Exit(c, s) ==
    /\ Runs(c, s) /\ pc[s] = "user" /\ lock = NoCPU /\ s # initproc
    /\ LET heirs == \E t \in Children(s) : state[t] = "ZOMBIE"
       IN  state' = [t \in Slots |->
                        IF t = s THEN "ZOMBIE"
                        ELSE IF \/ Asleep(state, t, parent[s])
                                \/ heirs /\ Asleep(state, t, initproc)
                        THEN "RUNNABLE" ELSE state[t]]
    /\ parent' = [t \in Slots |-> IF parent[t] = s THEN initproc ELSE parent[t]]
    /\ lock' = c
    /\ pc' = [pc EXCEPT ![s] = "exit"]
    /\ UNCHANGED <<pid, killed, chan, stack, on, np, shared>>

\* exit(): panic("init exiting").
InitExits(c) ==
    /\ Goes(c, initproc) /\ pc[initproc] = "user"
    /\ panicked' = TRUE
    /\ UNCHANGED <<state, pid, parent, killed, chan, stack, on, lock, pc, np, nextpid>>

\* wait(), from the call (which takes ptable.lock) or from the return of sleep()
\* (which holds it) to the next sleep or to its end.
Scanning(c, s) ==
    /\ Runs(c, s)
    /\ \/ pc[s] = "user" /\ lock = NoCPU
       \/ pc[s] = "wait" /\ lock = c

\* wait(): the first zombie child is freed.
WaitReap(c, s) ==
    /\ Scanning(c, s)
    /\ \E t \in Children(s) :
          /\ state[t] = "ZOMBIE"
          /\ \A u \in Children(s) : u < t => state[u] # "ZOMBIE"
          /\ state' = [state EXCEPT ![t] = "UNUSED"]
          /\ stack' = [stack EXCEPT ![t] = @ - 1]
          /\ pid' = [pid EXCEPT ![t] = 0]
          /\ parent' = [parent EXCEPT ![t] = 0]
          /\ killed' = [killed EXCEPT ![t] = 0]
          /\ pc' = [pc EXCEPT ![s] = "user", ![t] = "forkret"]
    /\ chan' = [chan EXCEPT ![s] = 0]
    /\ lock' = NoCPU
    /\ UNCHANGED <<on, np, shared>>

\* wait(): no zombie, and no children or killed: return -1.
WaitFails(c, s) ==
    /\ Scanning(c, s)
    /\ \A t \in Children(s) : state[t] # "ZOMBIE"
    /\ Children(s) = {} \/ killed[s] = 1
    /\ chan' = [chan EXCEPT ![s] = 0]
    /\ pc' = [pc EXCEPT ![s] = "user"]
    /\ lock' = NoCPU
    /\ UNCHANGED <<state, pid, parent, killed, stack, on, np, shared>>

\* wait(): sleep(proc, &ptable.lock), up to sched().
WaitSleep(c, s) ==
    /\ Scanning(c, s)
    /\ \A t \in Children(s) : state[t] # "ZOMBIE"
    /\ Children(s) # {} /\ killed[s] = 0
    /\ chan' = [chan EXCEPT ![s] = s]
    /\ state' = [state EXCEPT ![s] = "SLEEPING"]
    /\ pc' = [pc EXCEPT ![s] = "wait"]
    /\ lock' = c
    /\ UNCHANGED <<pid, parent, killed, stack, on, np, shared>>

\* kill(): the slot that the loop over the table finds, with that pid whatever
\* its state.
Found(t, n) == pid[t] = n /\ \A u \in 1 .. (t - 1) : pid[u] # n

\* Broken: kill() leaves a sleeping process asleep.
KillQuietly(c, s, n) ==
    /\ Runs(c, s) /\ pc[s] = "user" /\ lock = NoCPU
    /\ \/ \E t \in Slots : Found(t, n) /\ killed' = [killed EXCEPT ![t] = 1]
       \/ (\A t \in Slots : pid[t] # n) /\ UNCHANGED killed
    /\ UNCHANGED <<state, pid, parent, chan, stack, on, lock, pc, np, shared>>

\* kill(n): a sleeping process is woken.
Kill(c, s, n) ==
    /\ Runs(c, s) /\ pc[s] = "user" /\ lock = NoCPU
    /\ \/ \E t \in Slots :
             /\ Found(t, n)
             /\ killed' = [killed EXCEPT ![t] = 1]
             /\ state' = [state EXCEPT ![t] = IF @ = "SLEEPING" THEN "RUNNABLE" ELSE @]
       \/ (\A t \in Slots : pid[t] # n) /\ UNCHANGED <<killed, state>>
    /\ UNCHANGED <<pid, parent, chan, stack, on, lock, pc, np, shared>>

-----------------------------------------------------------------------------

\* Steps of fork() after allocproc() found a slot.
Fork(c, s) ==
    \/ ForkStack(c, s) \/ ForkStackFails(c, s)
    \/ ForkCopy(c, s) \/ ForkCopyFails(c, s) \/ ForkDone(c, s)

Wait(c, s) == WaitReap(c, s) \/ WaitFails(c, s) \/ WaitSleep(c, s)

Next ==
    \E c \in CPU :
        \/ SchedulerRelease(c) \/ InitExits(c)
        \/ \E s \in Slots :
              \/ Run(c, s) \/ Sched(c, s) \/ Yield(c, s) \/ Resume(c, s)
              \/ ForkAlloc(c, s) \/ Fork(c, s) \/ Exit(c, s) \/ Wait(c, s)
              \/ \E n \in 0 .. (MaxPid - 1) : Kill(c, s, n)

Spec == Init /\ [][Next]_vars

\* The next trap of a killed process.
KilledTraps(c, s) ==
    killed[s] = 1 /\ (Exit(c, s) \/ (s = initproc /\ InitExits(c)))

\* Every CPU keeps going; the loop of scheduler() comes round to every slot, so
\* a process that is runnable again and again is run; timer interrupts do not
\* cease, and a process gets on with fork() or to its next trap between them;
\* there a killed process exits; init calls wait() for ever (init.c).
Fairness ==
    /\ \A c \in CPU : WF_vars(SchedulerRelease(c))
    /\ \A s \in Slots :
          /\ WF_vars(\E c \in CPU : Sched(c, s) \/ Resume(c, s))
          /\ SF_vars(\E c \in CPU : Run(c, s))
          /\ WF_vars(\E c \in CPU : Yield(c, s))
          /\ SF_vars(\E c \in CPU : Fork(c, s) \/ KilledTraps(c, s))
          /\ WF_vars(\E c \in CPU : pc[s] = "wait" /\ Wait(c, s))
    /\ SF_vars(\E c \in CPU : Wait(c, initproc))

LiveSpec == Spec /\ Fairness

-----------------------------------------------------------------------------
(* Properties. *)

\* Types of the process table; a slot owns at most one kernel stack.
TypeOK ==
    /\ state \in [Slots -> States]
    /\ pid \in [Slots -> 0 .. MaxPid]
    /\ parent \in [Slots -> 0 .. NPROC]
    /\ killed \in [Slots -> {0, 1}]
    /\ chan \in [Slots -> 0 .. NPROC]
    /\ stack \in [Slots -> {0, 1}]
    /\ nextpid \in 2 .. MaxPid
    /\ on \in [CPU -> Slots \cup {Scheduler}]
    /\ lock \in CPU \cup {NoCPU}
    /\ pc \in [Slots -> PCs]
    /\ np \in [Slots -> 0 .. NPROC]
    /\ panicked \in BOOLEAN

\* What a CPU executes it executes alone and on a kernel stack that nobody has
\* freed: sched() keeps ptable.lock until the CPU has left the stack, so a
\* process that sleeps, yields or exits is neither run by another CPU nor
\* reaped by its parent before.
StackIsOwned ==
    \A c \in CPU : on[c] # Scheduler =>
        /\ stack[on[c]] = 1
        /\ \A d \in CPU : on[d] = on[c] => d = c

\* A process is RUNNING exactly while some CPU executes it, but for the steps
\* inside sched(), and then the CPU holds ptable.lock.
RunningIsOnCPU ==
    /\ \A s \in Slots : state[s] = "RUNNING" => \E c \in CPU : on[c] = s
    /\ \A c \in CPU : on[c] # Scheduler /\ state[on[c]] # "RUNNING" => lock = c

\* Every process but init has a parent that can still reap it: exit() hands the
\* children over to init before the parent is gone.
ParentIsAlive ==
    \A s \in Slots \ {initproc} : state[s] \notin {"UNUSED", "EMBRYO"} =>
        /\ parent[s] \in Slots
        /\ state[parent[s]] \notin {"UNUSED", "EMBRYO", "ZOMBIE"}

\* Nobody sleeps in wait() next to a zombie child, without children, or killed:
\* exit() and kill() wake the parent in every order of exits and adoptions.
NoMissedExit ==
    \A s \in Slots : state[s] = "SLEEPING" =>
        /\ killed[s] = 0
        /\ Children(s) # {}
        /\ \A t \in Children(s) : state[t] # "ZOMBIE"

\* A slot in use belongs to one fork() or to one process: what fork() writes
\* without ptable.lock nobody else writes.
EmbryoIsPrivate ==
    /\ \A s \in Slots : np[s] # 0 => state[np[s]] = "EMBRYO" /\ state[s] \notin {"UNUSED", "ZOMBIE"}
    /\ \A s, t \in Slots : np[s] = np[t] /\ np[s] # 0 => s = t
    /\ \A s \in Slots : state[s] = "EMBRYO" => \E t \in Slots : np[t] = s

\* A slot that is not in use owns no kernel stack and is nobody's child: the
\* failure paths of allocproc() and fork(), and wait(), leak nothing.
UnusedIsClean ==
    \A s \in Slots : state[s] = "UNUSED" => stack[s] = 0 /\ parent[s] = 0

\* Zombies that init inherits or has are reaped.
InitReaps ==
    \A s \in Slots :
        state[s] = "ZOMBIE" /\ parent[s] = initproc ~> state[s] = "UNUSED" \/ panicked

\* "Process won't exit until it returns to user space": but then it does, also
\* when it is killed in wait().
KilledExits ==
    \A s \in Slots :
        killed[s] = 1 /\ state[s] \notin {"UNUSED", "EMBRYO"}
            ~> state[s] \in {"ZOMBIE", "UNUSED"} \/ panicked

\* "Kill the process with the given pid": nobody else, in particular not a
\* process that is created later; a new process is not killed.
BornAlive ==
    [][\A s \in Slots : state[s] = "UNUSED" /\ state'[s] = "EMBRYO" => killed'[s] = 0]_vars

-----------------------------------------------------------------------------
(* The inductive invariant. *)

\* Where a process is, by its state; in the middle of fork() it is RUNNING, or
\* RUNNABLE if a timer interrupt made it yield() there.
PlaceOfState ==
    \A s \in Slots :
        /\ state[s] \in {"UNUSED", "EMBRYO"} => pc[s] = "forkret"
        /\ state[s] \in {"RUNNABLE", "RUNNING"} => pc[s] # "exit"
        /\ state[s] = "SLEEPING" => pc[s] = "wait" /\ chan[s] = s
        /\ state[s] = "ZOMBIE" => pc[s] = "exit"
        /\ np[s] # 0 <=> pc[s] \in {"alloc", "copy", "ready"}

\* ptable.lock is held across swtch(): by the CPU whose process is on its way into
\* sched(), and by the one whose process is on its way out of it.
LockAcrossSched ==
    \A c \in CPU : on[c] # Scheduler =>
        /\ state[on[c]] \notin {"UNUSED", "EMBRYO"}
        /\ state[on[c]] # "RUNNING" => pc[on[c]] # "forkret" /\ lock = c
        /\ pc[on[c]] \in {"wait", "exit", "forkret"} => lock = c

\* What a slot owns: a process its stack; a slot in the hands of fork() what
\* fork() has given it so far.
SlotOwns ==
    \A s \in Slots :
        /\ state[s] \notin {"UNUSED", "EMBRYO"} => stack[s] = 1
        /\ pc[s] = "alloc" => stack[np[s]] = 0 /\ parent[np[s]] = 0
        /\ pc[s] = "copy" => stack[np[s]] = 1 /\ parent[np[s]] = 0
        /\ pc[s] = "ready" => stack[np[s]] = 1 /\ parent[np[s]] = s

\* init is always there, to inherit; nobody is its own child.
InitLives ==
    /\ state[initproc] \notin {"UNUSED", "EMBRYO", "ZOMBIE"} /\ parent[initproc] = 0
    /\ \A s \in Slots : parent[s] # s

\* The process table is sound on any number of CPUs, between all steps of fork,
\* exit, wait, sleep and the schedulers: each process runs on one CPU and its own
\* stack, a slot that is being filled is nobody else's, a free one is empty, and
\* parents are there and awake when a child is to be reaped.
ProcInv ==
    /\ TypeOK
    /\ StackIsOwned
    /\ RunningIsOnCPU
    /\ EmbryoIsPrivate
    /\ UnusedIsClean
    /\ ParentIsAlive
    /\ NoMissedExit
    /\ PlaceOfState
    /\ LockAcrossSched
    /\ SlotOwns
    /\ InitLives
=============================================================================
