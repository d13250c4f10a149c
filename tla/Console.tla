------------------------------- MODULE Console -------------------------------
(* The console (console.c) with what it runs on: CPUs that take interrupts     *)
(* (trap.c), spinlocks that turn them off (spinlock.c), the scheduler, sleep   *)
(* and wakeup (proc.c), the keyboard and the serial line (kbd.c, uart.c), and  *)
(* the clock (sys_sleep).  Processes read, write, sleep and kill; interrupts   *)
(* come whenever a CPU lets them.  A step is what a CPU does between two       *)
(* points where another CPU or an interrupt can make a difference: acquire()   *)
(* of a lock that is taken, the switch to another thread, a release().         *)
EXTENDS Integers, Sequences

CONSTANTS
    CPU, BootCPU,      \* cpus[]; the one that devices and ticks interrupt
    NPROC,
    INPUT_BUF,
    UINT,              \* values of an unsigned int
    Scenarios,         \* bounds: the calls of each process (<<"read", n>> and so on),
                       \* what the devices send, and how many ticks there are
    NoCPU

Proc == 1 .. NPROC
Thread == Proc \cup CPU                 \* the scheduler of CPU c is thread c
Lock == {"ptable", "input", "cons", "tickslock"}

Char == {"NUL", "a", "A", "^A", "d", "D", "h", "H", "u", "U", "LF", "^D"}

\* What the devices can send: a key that goes down or up, a character.
Event == [dev : {"kbd"}, up : BOOLEAN,
          key : {"a", "d", "h", "u", "ret", "ctl", "rctl", "shift", "caps"}]
         \cup [dev : {"uart"}, up : {FALSE},
               key : Char \cup {"CR", "^H", "DEL", "^U", "^P", "^R"}]

ASSUME ConsoleAssumption ==
    /\ BootCPU \in CPU /\ NoCPU \notin CPU /\ CPU \cap Proc = {}
    /\ {NPROC, INPUT_BUF, UINT} \subseteq Nat /\ INPUT_BUF > 0
    /\ UINT % INPUT_BUF = 0 /\ INPUT_BUF < UINT
    /\ \A s \in Scenarios :
          /\ DOMAIN s.calls = Proc
          /\ \A p \in Proc : s.calls[p] \subseteq {"read", "write", "sleep", "kill"} \X Nat
          /\ s.script \in Seq(Event)
          /\ s.ticks \in Nat

VARIABLES
    m,       \* the machine: cpu (on, iflag, ncli, intena, spin), lock, panic
    proc,    \* struct proc, what the process does in the kernel, the calls it makes
    sched,   \* the scheduler of each CPU: pc, at (its place in the table)
    irq,     \* each thread: the interrupt handler that runs on top of it
    input,   \* buf, r, w, e
    dev,     \* kbd, uart (bytes not read), the keys down, shift, and what they
             \* still have to do: todo, ticks
    ticks,
    line     \* history: characters given to readers and not read yet

vars == <<m, proc, sched, irq, input, dev, ticks, line>>

NoFrame == [dev |-> "none", step |-> "none"]

\* Every process has been made by fork() and has not run; ticks is about to wrap.
Init ==
    /\ m = [cpu |-> [c \in CPU |-> [on |-> c, iflag |-> TRUE, ncli |-> 0,
                                    intena |-> FALSE, spin |-> "no"]],
            lock |-> [k \in Lock |-> NoCPU], panic |-> ""]
    /\ \E s \in Scenarios :
          /\ dev = [kbd |-> <<>>, uart |-> <<>>, down |-> {}, shift |-> {},
                    todo |-> s.script, ticks |-> s.ticks]
          /\ proc = [p \in Proc |->
                        [state |-> "RUNNABLE", chan |-> "none", killed |-> FALSE,
                         pc |-> "forkret", intena |-> FALSE, n |-> 0, got |-> <<>>,
                         ticks0 |-> 0, lk |-> "input", calls |-> s.calls[p]]]
    /\ sched = [c \in CPU |-> [pc |-> "idle", at |-> 1]]
    /\ irq = [t \in Thread |-> NoFrame]
    /\ input = [buf |-> [i \in 0 .. INPUT_BUF - 1 |-> "NUL"], r |-> 0, w |-> 0, e |-> 0]
    /\ ticks = UINT - 1
    /\ line = <<>>

-----------------------------------------------------------------------------
(* spinlock.c: operators on the machine s. *)

\* pushcli(), on the state of one CPU
Pushcli(k) ==
    [k EXCEPT !.iflag = FALSE, !.ncli = @ + 1,
              !.intena = IF k.ncli = 0 THEN k.iflag ELSE @]

\* popcli(); intena has no meaning while ncli is 0, and is FALSE.
Popcli(s, c) ==
    LET k == s.cpu[c]
        n == k.ncli - 1
    IN IF k.iflag \/ n < 0 THEN [s EXCEPT !.panic = "popcli"]
       ELSE [s EXCEPT !.cpu[c] = [k EXCEPT !.ncli = n, !.iflag = n = 0 /\ k.intena,
                                           !.intena = n > 0 /\ @]]

Holding(s, c, k) == s.lock[k] = c

\* acquire(): takes the lock, or spins for it with interrupts off.
Acquire(s, c, k) ==
    IF Holding(s, c, k) THEN [s EXCEPT !.panic = "acquire"]
    ELSE IF s.lock[k] = NoCPU
         THEN [s EXCEPT !.cpu[c] = Pushcli(@), !.lock[k] = c]
         ELSE [s EXCEPT !.cpu[c] = [Pushcli(@) EXCEPT !.spin = k]]

\* release()
Release(s, c, k) ==
    IF Holding(s, c, k) THEN Popcli([s EXCEPT !.lock[k] = NoCPU], c)
    ELSE [s EXCEPT !.panic = "release"]

\* acquire(): the xchg that finds the lock free.
Xchg(c) ==
    LET k == m.cpu[c].spin
    IN /\ m.panic = "" /\ k \in Lock /\ m.lock[k] = NoCPU
       /\ m' = [m EXCEPT !.cpu[c].spin = "no", !.lock[k] = c]
       /\ UNCHANGED <<proc, sched, irq, input, dev, ticks, line>>

\* CPU c executes thread t and does not spin.
Executes(c, t) == m.panic = "" /\ m.cpu[c].on = t /\ m.cpu[c].spin = "no"

\* CPU c is at this place of the kernel code of process p.
At(c, p, pc) == Executes(c, p) /\ irq[p] = NoFrame /\ proc[p].pc = pc

\* CPU c is at this step of an interrupt handler.
InHandler(c, t, step) == Executes(c, t) /\ irq[t].step = step

-----------------------------------------------------------------------------
(* Scheduling: proc.c. *)

\* sched(): the tests, the switch to the scheduler of the CPU.
Sched(s, c) ==
    IF ~Holding(s, c, "ptable") THEN [s EXCEPT !.panic = "sched ptable.lock"]
    ELSE IF s.cpu[c].ncli # 1 THEN [s EXCEPT !.panic = "sched locks"]
    ELSE IF s.cpu[c].iflag THEN [s EXCEPT !.panic = "sched interruptible"]
    ELSE [s EXCEPT !.cpu[c].on = c]

\* Broken: cpu->intena is left as the last thread set it.
BackForgets(s, c, p) == s

\* sched(): after the switch back, perhaps on another CPU.
Back(s, c, p) == [s EXCEPT !.cpu[c].intena = proc[p].intena]

\* scheduler(): sti().
Sti(c) ==
    /\ Executes(c, c) /\ irq[c] = NoFrame /\ sched[c].pc = "sti"
    /\ m' = [m EXCEPT !.cpu[c].iflag = TRUE]
    /\ sched' = [sched EXCEPT ![c].pc = "idle"]
    /\ UNCHANGED <<proc, irq, input, dev, ticks, line>>

\* scheduler(): acquire().
SchedulerLock(c) ==
    /\ Executes(c, c) /\ irq[c] = NoFrame /\ sched[c].pc = "idle"
    /\ m' = Acquire(m, c, "ptable")
    /\ sched' = [sched EXCEPT ![c] = [pc |-> "scan", at |-> 1]]
    /\ UNCHANGED <<proc, irq, input, dev, ticks, line>>

\* scheduler(): the next process that can run, or the end of the table.
SchedulerScan(c) ==
    LET next == {p \in Proc : p >= sched[c].at /\ proc[p].state = "RUNNABLE"}
    IN /\ Executes(c, c) /\ irq[c] = NoFrame /\ sched[c].pc = "scan"
       /\ \/ /\ next = {}
             /\ m' = Release(m, c, "ptable")
             /\ sched' = [sched EXCEPT ![c] = [pc |-> "sti", at |-> 1]]
             /\ UNCHANGED proc
          \/ \E p \in next :
                /\ \A q \in next : p <= q
                /\ m' = [m EXCEPT !.cpu[c].on = p]
                /\ sched' = [sched EXCEPT ![c].at = p + 1]
                /\ proc' = [proc EXCEPT ![p].state = "RUNNING"]
       /\ UNCHANGED <<irq, input, dev, ticks, line>>

\* forkret(), and the return to user space with the flags of the trap frame
Forkret(c, p) ==
    /\ At(c, p, "forkret")
    /\ m' = [Release(m, c, "ptable") EXCEPT !.cpu[c].iflag = TRUE]
    /\ proc' = [proc EXCEPT ![p].pc = "user"]
    /\ UNCHANGED <<sched, irq, input, dev, ticks, line>>

\* Broken: the lock of the caller is kept.
SleepHolding(s, c, k) == Sched(s, c)

\* sleep(): with both locks, give up the caller's and the CPU.
SleepSwitch(s, c, k) == Sched(Release(s, c, k), c)

\* sleep(): the process sleeps; its lock is also what it sleeps on.
Sleep(c, p) ==
    /\ At(c, p, "sleep")
    /\ proc' = [proc EXCEPT ![p].chan = proc[p].lk, ![p].state = "SLEEPING",
                            ![p].pc = "slept", ![p].intena = m.cpu[c].intena]
    /\ m' = SleepSwitch(m, c, proc[p].lk)
    /\ UNCHANGED <<sched, irq, input, dev, ticks, line>>

\* sleep(): awake and running again.
Awake(c, p) ==
    /\ At(c, p, "slept")
    /\ proc' = [proc EXCEPT ![p].chan = "none", ![p].pc = "relock"]
    /\ m' = Release(Back(m, c, p), c, "ptable")
    /\ UNCHANGED <<sched, irq, input, dev, ticks, line>>

\* sleep(): acquire(lk).
Relock(c, p) ==
    /\ At(c, p, "relock")
    /\ proc' = [proc EXCEPT ![p].pc = IF proc[p].lk = "input" THEN "read" ELSE "nap"]
    /\ m' = Acquire(m, c, proc[p].lk)
    /\ UNCHANGED <<sched, irq, input, dev, ticks, line>>

\* Broken: only one of the processes is woken.
WakeupOne(chan) ==
    LET asleep == {p \in Proc : proc[p].state = "SLEEPING" /\ proc[p].chan = chan}
    IN IF asleep = {} THEN proc ELSE [proc EXCEPT ![CHOOSE p \in asleep : TRUE].state = "RUNNABLE"]

\* wakeup1()
Wakeup1(chan) ==
    [p \in Proc |-> IF proc[p].state = "SLEEPING" /\ proc[p].chan = chan
                    THEN [proc[p] EXCEPT !.state = "RUNNABLE"] ELSE proc[p]]

\* exit(): the end of it, with ptable.lock.  The rest is in Proc.
Exit(c, p) ==
    /\ At(c, p, "exit")
    /\ m' = Acquire(m, c, "ptable")
    /\ proc' = [proc EXCEPT ![p].pc = "zombie"]
    /\ UNCHANGED <<sched, irq, input, dev, ticks, line>>

Zombie(c, p) ==
    /\ At(c, p, "zombie")
    /\ m' = Sched(m, c)
    /\ proc' = [proc EXCEPT ![p].state = "ZOMBIE"]
    /\ UNCHANGED <<sched, irq, input, dev, ticks, line>>

-----------------------------------------------------------------------------
(* System calls: trap(), and consoleread, consolewrite, sys_sleep and kill.    *)

\* trap(): where a system call returns to.
Return(p) == IF proc[p].killed THEN "exit" ELSE "user"

Uint(i) == i % UINT
Buf(i) == input.buf[i % INPUT_BUF]

\* trap(): a process that is killed makes no more calls.
SyscallKilled(c, p) ==
    /\ At(c, p, "user") /\ proc[p].killed
    /\ proc' = [proc EXCEPT ![p].pc = "exit"]
    /\ UNCHANGED <<m, sched, irq, input, dev, ticks, line>>

\* The call begins with acquire(k).
Call(c, p, k, to) ==
    /\ At(c, p, "user") /\ ~proc[p].killed
    /\ proc' = [proc EXCEPT ![p] = to]
    /\ m' = Acquire(m, c, k)
    /\ UNCHANGED <<sched, irq, input, dev, ticks, line>>

\* The call ends with release(k).
End(c, p, k) ==
    /\ m' = Release(m, c, k)
    /\ proc' = [proc EXCEPT ![p].pc = Return(p), ![p].n = 0, ![p].got = <<>>,
                            ![p].ticks0 = 0, ![p].lk = "input"]

\* consoleread(), which gives up the lock of the console's inode before and takes
\* it again after: fileread() and it hold that only where nothing waits, so it is
\* left out here, as in consolewrite(); ilock() and iunlock() are in Fs.
Consoleread(c, p, n) ==
    Call(c, p, "input", [proc[p] EXCEPT !.pc = "read", !.n = n])

\* The call that p makes sleeps, in sleep() with the lock that it holds.
Wait(c, p) ==
    /\ m' = Acquire(m, c, "ptable")
    /\ proc' = [proc EXCEPT ![p].pc = "sleep"]

\* Nothing to read: give up if killed, or sleep.
ReadBlock(c, p) ==
    /\ At(c, p, "read") /\ proc[p].n > 0 /\ input.r = input.w
    /\ IF proc[p].killed THEN End(c, p, "input") ELSE Wait(c, p)
    /\ UNCHANGED <<sched, irq, input, dev, ticks, line>>

\* Broken: the end of file is not kept for the next read.
AfterEofLost(p) == Uint(input.r + 1)

\* The read index after ^D: a read that has something to return leaves the ^D.
AfterEof(p) == IF proc[p].got # <<>> THEN input.r ELSE Uint(input.r + 1)

\* Broken: a read goes on after the end of a line.
LeftOver(n, x) == n - 1

\* What is still to be read after the character x.
Left(n, x) == IF x = "LF" THEN 0 ELSE n - 1

\* Take one character.
ReadChar(c, p) ==
    LET x == Buf(input.r)
        eof == x = "^D"
    IN /\ At(c, p, "read") /\ proc[p].n > 0 /\ input.r # input.w
       /\ input' = [input EXCEPT !.r = IF eof THEN AfterEof(p) ELSE Uint(@ + 1)]
       /\ proc' = [proc EXCEPT ![p].n = IF eof THEN 0 ELSE Left(@, x),
                               ![p].got = IF eof THEN @ ELSE Append(@, x)]
       /\ line' = IF eof /\ proc[p].got # <<>> THEN line ELSE Tail(line)
       /\ UNCHANGED <<m, sched, irq, dev, ticks>>

\* The loop is over.
ReadEnd(c, p) ==
    /\ At(c, p, "read") /\ proc[p].n = 0
    /\ End(c, p, "input")
    /\ UNCHANGED <<sched, irq, input, dev, ticks, line>>

\* consolewrite()
Consolewrite(c, p) == Call(c, p, "cons", [proc[p] EXCEPT !.pc = "write"])

WriteEnd(c, p) ==
    /\ At(c, p, "write")
    /\ End(c, p, "cons")
    /\ UNCHANGED <<sched, irq, input, dev, ticks, line>>

\* sys_sleep()
SysSleep(c, p, n) ==
    Call(c, p, "tickslock", [proc[p] EXCEPT !.pc = "ticks0", !.n = n, !.lk = "tickslock"])

Ticks0(c, p) ==
    /\ At(c, p, "ticks0")
    /\ proc' = [proc EXCEPT ![p].ticks0 = ticks, ![p].pc = "nap"]
    /\ UNCHANGED <<m, sched, irq, input, dev, ticks, line>>

\* Broken: signed comparison with the tick at which to wake up.
TooSoonSigned(p) == ticks < proc[p].ticks0 + proc[p].n

\* The time is not over.
TooSoon(p) == Uint(ticks - proc[p].ticks0) < proc[p].n

Nap(c, p) ==
    /\ At(c, p, "nap")
    /\ IF TooSoon(p) /\ ~proc[p].killed THEN Wait(c, p) ELSE End(c, p, "tickslock")
    /\ UNCHANGED <<sched, irq, input, dev, ticks, line>>

\* kill()
SysKill(c, p, q) ==
    Call(c, p, "ptable", [proc[p] EXCEPT !.pc = "kill", !.n = q])

Kill(c, p) ==
    LET q == proc[p].n
        self == IF q = p THEN "exit" ELSE Return(p)
    IN /\ At(c, p, "kill")
       /\ m' = Release(m, c, "ptable")
       /\ proc' = [proc EXCEPT ![p].pc = self, ![p].n = 0,
                       ![q].killed = TRUE,
                       ![q].state = IF @ = "SLEEPING" THEN "RUNNABLE" ELSE @]
       /\ UNCHANGED <<sched, irq, input, dev, ticks, line>>

-----------------------------------------------------------------------------
(* The devices.  A key sends a byte when it goes down, again when it repeats,  *)
(* and when it goes up; the right control key puts an escape before it.  The   *)
(* devices hold what has not been read, and send when it has.                  *)

Bytes(k, up) ==
    IF k = "rctl" THEN <<[key |-> "E0", up |-> FALSE], [key |-> "ctl", up |-> up]>>
    ELSE <<[key |-> k, up |-> up]>>

Key ==
    LET k == Head(dev.todo)
    IN /\ dev.todo # <<>> /\ k.dev = "kbd" /\ dev.kbd = <<>>
       /\ dev' = [dev EXCEPT !.kbd = Bytes(k.key, k.up), !.todo = Tail(@),
                             !.down = IF k.up THEN @ \ {k.key} ELSE @ \cup {k.key}]
       /\ UNCHANGED <<m, proc, sched, irq, input, ticks, line>>

SerialChar ==
    /\ dev.todo # <<>> /\ Head(dev.todo).dev = "uart" /\ dev.uart = <<>>
    /\ dev' = [dev EXCEPT !.uart = <<Head(dev.todo).key>>, !.todo = Tail(@)]
    /\ UNCHANGED <<m, proc, sched, irq, input, ticks, line>>

\* kbd.h: shiftcode, of a code with the escape or without; togglecode
Shiftcode(k, e0) ==
    IF k = "ctl" THEN {"CTL"} ELSE IF k = "shift" /\ ~e0 THEN {"SHIFT"} ELSE {}
Togglecode(k) == IF k = "caps" THEN {"CAPSLOCK"} ELSE {}

\* kbd.h: normalmap, shiftmap and ctlmap; the upper case of a letter
Upper(x) == CASE x = "a" -> "A" [] x = "d" -> "D" [] x = "h" -> "H" [] x = "u" -> "U" [] OTHER -> x
Lower(x) == CASE x = "A" -> "a" [] x = "D" -> "d" [] x = "H" -> "h" [] x = "U" -> "u" [] OTHER -> x
Charcode(k, shift) ==
    IF k \in {"ctl", "shift", "caps"} THEN "NUL"
    ELSE IF "CTL" \in shift
         THEN CASE k = "a" -> "^A" [] k = "d" -> "^D" [] k = "h" -> "^H" [] k = "u" -> "^U" [] OTHER -> "CR"
    ELSE LET x == IF k = "ret" THEN "LF" ELSE k
         IN IF "SHIFT" \in shift THEN Upper(x) ELSE x

\* Broken: a release clears only the escape.
ReleasedKeeps(b) == dev.shift \ {"E0ESC"}

\* kbdgetc(): shift after a key goes up
Released(b) == dev.shift \ (Shiftcode(b.key, "E0ESC" \in dev.shift) \cup {"E0ESC"})

\* kbdgetc(): shift after a key goes down
Pressed(b) ==
    LET on == (dev.shift \ {"E0ESC"}) \cup Shiftcode(b.key, "E0ESC" \in dev.shift)
        toggle == Togglecode(b.key)
    IN (on \ toggle) \cup (toggle \ on)

\* kbdgetc(): the character and shift, for the next byte
Kbdgetc(b) ==
    IF b.key = "E0" THEN [c |-> "NUL", shift |-> dev.shift \cup {"E0ESC"}]
    ELSE IF b.up THEN [c |-> "NUL", shift |-> Released(b)]
    ELSE LET on == Pressed(b)
             x == Charcode(b.key, on)
         IN [c |-> IF "CAPSLOCK" \notin on THEN x
                   ELSE IF Upper(x) # x THEN Upper(x) ELSE Lower(x),
             shift |-> on]

\* uartgetc()
Uartgetc(x) == [c |-> x, shift |-> dev.shift]

-----------------------------------------------------------------------------
(* Interrupts: trap(), kbdintr(), uartintr(), consoleintr().                   *)

\* A device interrupts CPU c, whatever thread t it executes.
Interrupt(c, t) == Executes(c, t) /\ m.cpu[c].iflag
Off(c) == [m EXCEPT !.cpu[c].iflag = FALSE]

\* kbdintr() and uartintr(): consoleintr() up to acquire(&input.lock).
Devintr(c, t, d) ==
    /\ Interrupt(c, t) /\ c = BootCPU /\ dev[d] # <<>>
    /\ irq' = [irq EXCEPT ![t] = [dev |-> d, step |-> "getc"]]
    /\ m' = Acquire(Off(c), c, "input")
    /\ UNCHANGED <<proc, sched, input, dev, ticks, line>>

\* The timer: only one CPU counts.
Timer(c, t) ==
    /\ Interrupt(c, t)
    /\ c = BootCPU => dev.ticks > 0
    /\ irq' = [irq EXCEPT ![t] = [dev |-> "timer",
                                  step |-> IF c = BootCPU THEN "tick" ELSE "tail"]]
    /\ m' = IF c = BootCPU THEN Acquire(Off(c), c, "tickslock") ELSE Off(c)
    /\ UNCHANGED <<proc, sched, input, dev, ticks, line>>

Tick(c, t) ==
    /\ InHandler(c, t, "tick")
    /\ ticks' = Uint(ticks + 1)
    /\ dev' = [dev EXCEPT !.ticks = @ - 1]
    /\ irq' = [irq EXCEPT ![t].step = "wake"]
    /\ m' = Acquire(m, c, "ptable")
    /\ UNCHANGED <<proc, sched, input, line>>

\* ^U: back by k, to the end of the line before or to what readers have been given.
KillLine(k) ==
    /\ \A j \in 1 .. k : Buf(input.e - j) # "LF"
    /\ k = Uint(input.e - input.w) \/ Buf(input.e - k - 1) = "LF"

\* Broken: a full buffer is given to readers only at the end of a line.
CommitsLine(x, e) == x \in {"LF", "^D"}

\* The line goes to the readers.
Commits(x, e) == x \in {"LF", "^D"} \/ e = Uint(input.r + INPUT_BUF)

\* Broken: a zero is stored.
AcceptsNul(x) == Uint(input.e - input.r) < INPUT_BUF

\* There is a character and room for it.
Accepts(x) == x # "NUL" /\ Uint(input.e - input.r) < INPUT_BUF

\* consoleintr(): a character goes into the buffer.
Store(c, t, x) ==
    LET e == Uint(input.e + 1)
        stored == [input EXCEPT !.buf[input.e % INPUT_BUF] = x, !.e = e]
        new == [i \in 1 .. Uint(e - input.w) |-> stored.buf[(input.w + i - 1) % INPUT_BUF]]
    IN IF Commits(x, e)
       THEN /\ input' = [stored EXCEPT !.w = e]
            /\ line' = line \o new
            /\ m' = Acquire(m, c, "ptable")
            /\ irq' = [irq EXCEPT ![t].step = "wake"]
       ELSE /\ input' = stored
            /\ UNCHANGED <<m, irq, line>>

\* What sleep_proc_list() lists.
Sleeping == {p \in Proc : proc[p].state = "SLEEPING"}

\* consoleintr(): one round of the loop.
Getc(c, t) ==
    LET d == irq[t].dev
        got == IF d = "kbd" THEN Kbdgetc(Head(dev.kbd)) ELSE Uartgetc(Head(dev.uart))
        x == got.c
    IN /\ InHandler(c, t, "getc") /\ dev[d] # <<>>
       /\ dev' = [dev EXCEPT ![d] = Tail(@), !.shift = got.shift]
       /\ CASE x = "^P" \/ (x = "^R" /\ Sleeping # {}) ->
                 /\ m' = Acquire(m, c, "cons")
                 /\ irq' = [irq EXCEPT ![t].step = "list"]
                 /\ UNCHANGED <<input, line>>
            [] x = "^R" /\ Sleeping = {} ->
                 UNCHANGED <<m, irq, input, line>>
            [] x = "^U" ->
                 /\ \E k \in 0 .. Uint(input.e - input.w) :
                       KillLine(k) /\ input' = [input EXCEPT !.e = Uint(@ - k)]
                 /\ UNCHANGED <<m, irq, line>>
            [] x \in {"^H", "DEL"} ->
                 /\ input' = [input EXCEPT !.e = IF @ # input.w THEN Uint(@ - 1) ELSE @]
                 /\ UNCHANGED <<m, irq, line>>
            [] OTHER ->
                 IF Accepts(x) THEN Store(c, t, IF x = "CR" THEN "LF" ELSE x)
                 ELSE UNCHANGED <<m, irq, input, line>>
       /\ UNCHANGED <<proc, sched, ticks>>

\* consoleintr(): no more characters.
Drained(c, t) ==
    /\ InHandler(c, t, "getc") /\ dev[irq[t].dev] = <<>>
    /\ m' = Release(m, c, "input")
    /\ irq' = [irq EXCEPT ![t].step = "tail"]
    /\ UNCHANGED <<proc, sched, input, dev, ticks, line>>

\* procdump() and sleep_proc_list(): the end of a cprintf(), the last one or not.
List(c, t) ==
    /\ InHandler(c, t, "list")
    /\ m' = Release(m, c, "cons")
    /\ \E step \in {"getc", "listing"} : irq' = [irq EXCEPT ![t].step = step]
    /\ UNCHANGED <<proc, sched, input, dev, ticks, line>>

\* The next cprintf(): one or more for each process of the table.
ListNext(c, t) ==
    /\ InHandler(c, t, "listing")
    /\ m' = Acquire(m, c, "cons")
    /\ irq' = [irq EXCEPT ![t].step = "list"]
    /\ UNCHANGED <<proc, sched, input, dev, ticks, line>>

\* wakeup() in a handler, with ptable.lock; the timer also releases its lock.
Wake(c, t) ==
    LET timer == irq[t].dev = "timer"
        s == Release(m, c, "ptable")
    IN /\ InHandler(c, t, "wake")
       /\ proc' = Wakeup1(IF timer THEN "tickslock" ELSE "input")
       /\ m' = IF timer THEN Release(s, c, "tickslock") ELSE s
       /\ irq' = [irq EXCEPT ![t].step = IF timer THEN "tail" ELSE "getc"]
       /\ UNCHANGED <<sched, input, dev, ticks, line>>

\* The end of trap(): exit, yield, or the return from the interrupt.
TrapExit(c, p) ==
    /\ InHandler(c, p, "tail") /\ proc[p].killed /\ proc[p].pc = "user"
    /\ irq' = [irq EXCEPT ![p] = NoFrame]
    /\ proc' = [proc EXCEPT ![p].pc = "exit"]
    /\ UNCHANGED <<m, sched, input, dev, ticks, line>>

Yields(t) == t \in Proc /\ irq[t].dev = "timer"

YieldLock(c, p) ==
    /\ InHandler(c, p, "tail") /\ ~(proc[p].killed /\ proc[p].pc = "user") /\ Yields(p)
    /\ m' = Acquire(m, c, "ptable")
    /\ irq' = [irq EXCEPT ![p].step = "yield"]
    /\ UNCHANGED <<proc, sched, input, dev, ticks, line>>

\* yield()
Yield(c, p) ==
    /\ InHandler(c, p, "yield")
    /\ proc' = [proc EXCEPT ![p].state = "RUNNABLE", ![p].intena = m.cpu[c].intena]
    /\ m' = Sched(m, c)
    /\ irq' = [irq EXCEPT ![p].step = "yielded"]
    /\ UNCHANGED <<sched, input, dev, ticks, line>>

Yielded(c, p) ==
    /\ InHandler(c, p, "yielded")
    /\ m' = Release(Back(m, c, p), c, "ptable")
    /\ irq' = [irq EXCEPT ![p] = [dev |-> "yielded", step |-> "tail"]]
    /\ UNCHANGED <<proc, sched, input, dev, ticks, line>>

Iret(c, t) ==
    /\ InHandler(c, t, "tail") /\ ~Yields(t)
    /\ t \in Proc => ~(proc[t].killed /\ proc[t].pc = "user")
    /\ irq' = [irq EXCEPT ![t] = NoFrame]
    /\ m' = [m EXCEPT !.cpu[c].iflag = TRUE]
    /\ UNCHANGED <<proc, sched, input, dev, ticks, line>>

-----------------------------------------------------------------------------

CpuNext(c) == Xchg(c) \/ Sti(c) \/ SchedulerLock(c) \/ SchedulerScan(c)

ProcNext(c, p) ==
    \/ Forkret(c, p) \/ Sleep(c, p) \/ Awake(c, p) \/ Relock(c, p)
    \/ SyscallKilled(c, p) \/ Exit(c, p) \/ Zombie(c, p)
    \/ ReadBlock(c, p) \/ ReadChar(c, p) \/ ReadEnd(c, p) \/ WriteEnd(c, p)
    \/ Ticks0(c, p) \/ Nap(c, p) \/ Kill(c, p)
    \/ TrapExit(c, p) \/ YieldLock(c, p) \/ Yield(c, p) \/ Yielded(c, p)

CallNext(c, p, call) ==
    \/ call[1] = "read" /\ Consoleread(c, p, call[2])
    \/ call[1] = "write" /\ Consolewrite(c, p)
    \/ call[1] = "sleep" /\ SysSleep(c, p, call[2])
    \/ call[1] = "kill" /\ SysKill(c, p, call[2])

HandlerNext(c, t) ==
    \/ Timer(c, t) \/ Tick(c, t) \/ Getc(c, t) \/ Drained(c, t)
    \/ List(c, t) \/ ListNext(c, t) \/ Wake(c, t) \/ Iret(c, t)
    \/ \E d \in {"kbd", "uart"} : Devintr(c, t, d)

Next ==
    \/ \E c \in CPU : CpuNext(c)
    \/ \E c \in CPU, p \in Proc :
          ProcNext(c, p) \/ \E call \in proc[p].calls : CallNext(c, p, call)
    \/ \E c \in CPU, t \in Thread : HandlerNext(c, t)
    \/ Key \/ SerialChar

Spec == Init /\ [][Next]_vars

-----------------------------------------------------------------------------
(* Properties. *)

\* Types: no zero is ever given to a reader, and a CPU holds at most two locks.
TypeOK ==
    /\ \A c \in CPU :
          /\ m.cpu[c].on \in Proc \cup {c}
          /\ m.cpu[c].ncli \in 0 .. 2
          /\ m.cpu[c].spin \in Lock \cup {"no"}
    /\ m.lock \in [Lock -> CPU \cup {NoCPU}]
    /\ \A p \in Proc :
          /\ proc[p].state \in {"RUNNABLE", "RUNNING", "SLEEPING", "ZOMBIE"}
          /\ proc[p].got \in Seq(Char \ {"NUL"})
    /\ input.buf \in [0 .. INPUT_BUF - 1 -> Char]
    /\ {input.r, input.w, input.e, ticks} \subseteq 0 .. UINT - 1
    /\ line \in Seq(Char \ {"NUL"})

\* No panic of acquire(), release(), popcli() or sched(): no CPU waits for a lock
\* that it holds, and a process switches with ptable.lock and no other.
NoPanic == m.panic = ""

\* Interrupts are off where a lock is held and in a handler, and on in user space,
\* in the kernel code of a process that holds no lock and in the idle scheduler,
\* on whatever CPU the process went on after a switch.
InterruptFlag ==
    \A c \in CPU :
        LET t == m.cpu[c].on
            k == m.cpu[c]
        IN /\ (\E l \in Lock : m.lock[l] = c) => ~k.iflag
           /\ irq[t] # NoFrame => ~k.iflag
           /\ irq[t] = NoFrame /\ k.ncli = 0 =>
                 k.iflag \/ IF t = c THEN sched[c].pc = "sti" ELSE proc[t].pc = "exit"

\* What the ring buffer holds, and what of it readers may have.
Held == Uint(input.e - input.r)
Given == Uint(input.w - input.r)

\* The ring never holds more than its size, and when it is full all of it is
\* readable: otherwise no character could ever complete the line.
RingIsReadable ==
    /\ Given <= Held /\ Held <= INPUT_BUF
    /\ Held = INPUT_BUF => Given = Held

\* Readers get the lines that were completed, in order and each character once,
\* and one end of file for each ^D, whatever is edited meanwhile.
InOrder == line = [i \in 1 .. Given |-> Buf(input.r + i - 1)]

\* A read takes at most one line, and never a ^D.
LineAtATime ==
    \A p \in Proc : \A i \in DOMAIN proc[p].got :
        /\ proc[p].got[i] # "^D"
        /\ proc[p].got[i] = "LF" => i = Len(proc[p].got)

\* Some CPU is about to call wakeup() for this device.
Waking(devs) == \E t \in Thread : irq[t].dev \in devs /\ irq[t].step = "wake"

\* A process sleeps in consoleread() only while there is nothing to read, or the
\* interrupt that brought it has still to wake it.
NoLostWakeup ==
    \A p \in Proc :
        proc[p].state = "SLEEPING" /\ proc[p].chan = "input" =>
            input.r = input.w \/ Waking({"kbd", "uart"})

\* A process sleeps in sys_sleep() only until its ticks have passed, also when
\* ticks wraps.
NapEnds ==
    \A p \in Proc :
        proc[p].state = "SLEEPING" /\ proc[p].chan = "tickslock" =>
            Uint(ticks - proc[p].ticks0) < proc[p].n \/ Waking({"timer"})

\* When the bytes of the keyboard are read, a modifier is on only if one of its
\* keys is down, and no escape is left over.
NoStuckModifier ==
    dev.kbd = <<>> =>
        /\ "CTL" \in dev.shift => dev.down \cap {"ctl", "rctl"} # {}
        /\ "SHIFT" \in dev.shift => "shift" \in dev.down
        /\ "E0ESC" \notin dev.shift

\* Locks and interrupts are used as they must be, on all CPUs and in all handlers.
LockInv == NoPanic /\ InterruptFlag

\* The ring holds what was typed, in order, and can always be read when it is full.
RingInv == TypeOK /\ RingIsReadable /\ InOrder

\* Neither the keyboard's nor the timer's wakeups are lost.
WakeupsArrive == NoLostWakeup /\ NapEnds
=============================================================================
