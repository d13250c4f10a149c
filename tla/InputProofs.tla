----------------------------- MODULE InputProofs -----------------------------
(* Proofs about what the console does for those who read from it, for any      *)
(* number of CPUs and processes and any size of its buffer: no wakeup is lost, *)
(* a read takes one line, the ring holds what was typed in order, and no       *)
(* modifier stays on.  That what is tested with a lock is still so when the    *)
(* process sleeps rests on ConsoleInv, which says who holds the lock.          *)
EXTENDS ConsoleProofs

\* What a process tested before it calls sleep() is still so: it has the lock.
TestedInv ==
    \A p \in Proc :
        proc[p].state = "RUNNING" /\ proc[p].pc = "sleep" =>
            IF proc[p].lk = "input" THEN input.r = input.w ELSE TooSoon(p)

Reading == {"read", "sleep", "slept", "relock"}

\* What a read has taken so far.
GotInv ==
    \A p \in Proc :
        /\ proc[p].got \in Seq(Char \ {"NUL"})
        /\ proc[p].got # <<>> => proc[p].lk = "input" /\ proc[p].pc \in Reading
        /\ \A i \in DOMAIN proc[p].got :
              /\ proc[p].got[i] # "^D"
              /\ proc[p].got[i] = "LF" => i = Len(proc[p].got) /\ proc[p].n = 0

\* What is stored is no zero.
StoredInv == \A i \in 0 .. Held - 1 : Buf(input.r + i) # "NUL"

BufferInv == RingIsReadable /\ InOrder /\ StoredInv

\* The inductive invariant of the input, together with ConsoleInv
InputInv == TestedInv /\ WakeupsArrive /\ GotInv /\ BufferInv

-----------------------------------------------------------------------------
(* Steps that do not touch the buffer. *)

\* If process q sleeps, it did, and waits for the same.
StillSleeps(q) ==
    proc'[q].state = "SLEEPING" =>
        /\ proc[q].state = "SLEEPING" /\ proc'[q].chan = proc[q].chan
        /\ proc'[q].n = proc[q].n /\ proc'[q].ticks0 = proc[q].ticks0

Falling(q) == proc[q].state = "RUNNING" /\ proc[q].pc = "sleep"

\* If it is about to sleep, it was, and for the same.
StillFalls(q) ==
    Falling(q)' =>
        /\ Falling(q) /\ proc'[q].lk = proc[q].lk
        /\ proc'[q].n = proc[q].n /\ proc'[q].ticks0 = proc[q].ticks0

\* A thread that is about to call wakeup() still is.
StillWakes(t) == irq[t].step = "wake" => irq'[t] = irq[t]

\* A step that changes nothing that a process tested before sleep().
LEMMA TestedQuiet ==
  ASSUME TestedInv, \A q \in Proc : StillFalls(q),
         \A q \in Proc : Falling(q) => IF proc[q].lk = "input" THEN input' = input ELSE ticks' = ticks
  PROVE  TestedInv'
<1> USE Zenon
<1> SUFFICES ASSUME NEW q \in Proc, Falling(q)'
             PROVE  IF proc'[q].lk = "input" THEN input'.r = input'.w ELSE TooSoon(q)'
  BY DEF TestedInv, Falling
<1>1. /\ Falling(q) /\ proc'[q].lk = proc[q].lk
      /\ proc'[q].n = proc[q].n /\ proc'[q].ticks0 = proc[q].ticks0
  BY DEF StillFalls
<1>2. IF proc[q].lk = "input" THEN input.r = input.w ELSE TooSoon(q)
  BY <1>1 DEF TestedInv, Falling
<1> QED BY <1>1, <1>2 DEF TooSoon

\* A handler that is about to wake somebody still is.
LEMMA StillWaking ==
  ASSUME \A t \in Thread : StillWakes(t), NEW devs, Waking(devs)
  PROVE  Waking(devs)'
BY Zenon DEF Waking, StillWakes

\* Sleeping readers, when no step gives them anything to read.
LEMMA ReadersQuiet ==
  ASSUME NoLostWakeup, \A q \in Proc : StillSleeps(q), \A t \in Thread : StillWakes(t),
         input.r = input.w => input'.r = input'.w
  PROVE  NoLostWakeup'
<1> USE Zenon
<1> SUFFICES ASSUME NEW q \in Proc, proc'[q].state = "SLEEPING", proc'[q].chan = "input"
             PROVE  input'.r = input'.w \/ Waking({"kbd", "uart"})'
  BY DEF NoLostWakeup
<1>1. proc[q].state = "SLEEPING" /\ proc[q].chan = "input"
  BY DEF StillSleeps
<1> QED BY <1>1, StillWaking DEF NoLostWakeup

\* Sleepers of sys_sleep(), when the clock stands still.
LEMMA NappersQuiet ==
  ASSUME NapEnds, \A q \in Proc : StillSleeps(q), \A t \in Thread : StillWakes(t), ticks' = ticks
  PROVE  NapEnds'
<1> USE Zenon
<1> SUFFICES ASSUME NEW q \in Proc, proc'[q].state = "SLEEPING", proc'[q].chan = "tickslock"
             PROVE  Uint(ticks' - proc'[q].ticks0) < proc'[q].n \/ Waking({"timer"})'
  BY DEF NapEnds
<1>1. /\ proc[q].state = "SLEEPING" /\ proc[q].chan = "tickslock"
      /\ proc'[q].n = proc[q].n /\ proc'[q].ticks0 = proc[q].ticks0
  BY DEF StillSleeps
<1> QED BY <1>1, StillWaking DEF NapEnds

\* Nothing that a process waits for or has tested changes.
LEMMA WakeQuiet ==
  ASSUME TestedInv, WakeupsArrive, \A q \in Proc : StillSleeps(q) /\ StillFalls(q),
         \A t \in Thread : StillWakes(t), UNCHANGED <<input, ticks>>
  PROVE  TestedInv' /\ WakeupsArrive'
<1> USE Zenon
<1>1. NoLostWakeup /\ NapEnds
  BY DEF WakeupsArrive
<1> QED BY <1>1, TestedQuiet, ReadersQuiet, NappersQuiet DEF WakeupsArrive

\* What process q has read is given up, or kept by a read that goes on.
KeepsGot(q) ==
    \/ proc'[q].got = <<>>
    \/ /\ proc'[q].got = proc[q].got
       /\ \/ proc[q].pc \notin Reading
          \/ /\ proc'[q].n = proc[q].n /\ proc'[q].lk = proc[q].lk
             /\ proc[q].lk = "input" => proc'[q].pc \in Reading

\* What reads have taken, when no step adds to it.
LEMMA GotQuiet ==
  ASSUME GotInv, \A q \in Proc : KeepsGot(q)
  PROVE  GotInv'
<1> USE Zenon
<1> SUFFICES ASSUME NEW q \in Proc
             PROVE  /\ proc'[q].got \in Seq(Char \ {"NUL"})
                    /\ proc'[q].got # <<>> => proc'[q].lk = "input" /\ proc'[q].pc \in Reading
                    /\ \A i \in DOMAIN proc'[q].got :
                          /\ proc'[q].got[i] # "^D"
                          /\ proc'[q].got[i] = "LF" => i = Len(proc'[q].got) /\ proc'[q].n = 0
  BY DEF GotInv
<1>1. KeepsGot(q)
  OBVIOUS
<1>2. CASE proc'[q].got = <<>>
  BY <1>2, SMT
<1>3. CASE proc'[q].got = proc[q].got /\ proc[q].got # <<>>
  <2>1. proc[q].pc \in Reading /\ proc[q].lk = "input"
    BY <1>3 DEF GotInv
  <2>2. proc'[q].n = proc[q].n /\ proc'[q].lk = "input" /\ proc'[q].pc \in Reading
    BY <1>1, <1>3, <2>1 DEF KeepsGot
  <2> QED BY <1>3, <2>2 DEF GotInv
<1> QED BY <1>1, <1>2, <1>3 DEF KeepsGot

\* The ring, when it is left alone.
LEMMA BufferQuiet ==
  ASSUME BufferInv, UNCHANGED <<input, line>>
  PROVE  BufferInv'
BY Zenon DEF BufferInv, RingIsReadable, InOrder, StoredInv, Held, Given, Buf

\* A step that changes one process, which does not sleep after it.
LEMMA PlainInput ==
  ASSUME ConsoleInv, InputInv, NEW p \in Proc, NEW r, proc' = [proc EXCEPT ![p] = r],
         r.state # "SLEEPING", r.pc # "sleep",
         \/ r.got = <<>>
         \/ /\ r.got = proc[p].got
            /\ \/ proc[p].pc \notin Reading
               \/ r.n = proc[p].n /\ r.lk = proc[p].lk /\ (proc[p].lk = "input" => r.pc \in Reading),
         \A t \in Thread : StillWakes(t), UNCHANGED <<input, ticks, line>>
  PROVE  InputInv'
<1> USE Zenon
<1>1. proc'[p] = r /\ \A q \in Proc \ {p} : proc'[q] = proc[q]
  BY DEF ConsoleInv, TypeInv
<1>2. StillSleeps(p) /\ StillFalls(p) /\ KeepsGot(p)
  BY <1>1 DEF StillSleeps, StillFalls, Falling, KeepsGot
<1>3. ASSUME NEW q \in Proc \ {p}
      PROVE  StillSleeps(q) /\ StillFalls(q) /\ KeepsGot(q)
  <2>1. proc'[q] = proc[q]
    BY <1>1
  <2> QED BY <2>1 DEF StillSleeps, StillFalls, Falling, KeepsGot
<1>4. \A q \in Proc : StillSleeps(q) /\ StillFalls(q) /\ KeepsGot(q)
  BY <1>2, <1>3
<1> QED BY <1>4, WakeQuiet, GotQuiet, BufferQuiet DEF InputInv

\* A step that changes no process.
LEMMA IdleInput ==
  ASSUME InputInv, UNCHANGED <<proc, input, ticks, line>>, \A t \in Thread : StillWakes(t)
  PROVE  InputInv'
<1> USE Zenon
<1>1. \A q \in Proc : StillSleeps(q) /\ StillFalls(q) /\ KeepsGot(q)
  BY DEF StillSleeps, StillFalls, Falling, KeepsGot
<1> QED BY <1>1, WakeQuiet, GotQuiet, BufferQuiet DEF InputInv

\* A handler that does not wake up
LEMMA HandlerWakes ==
  ASSUME ConsoleInv, NEW t \in Thread, irq[t].step # "wake",
         NEW step, NEW f, irq' = [irq EXCEPT ![t] = f] \/ irq' = [irq EXCEPT ![t].step = step]
  PROVE  \A u \in Thread : StillWakes(u)
<1> USE Zenon
<1>1. irq \in [Thread -> Frames]
  BY DEF ConsoleInv, TypeInv
<1> QED BY <1>1 DEF StillWakes

\* Without a step of a handler all wakeups are still to come.
LEMMA IrqSame ==
  ASSUME irq' = irq
  PROVE  \A u \in Thread : StillWakes(u)
BY Zenon DEF StillWakes

\* The frame of a thread that is not interrupted.
LEMMA NoFrameIs == NoFrame.step = "none" /\ NoFrame.dev = "none"
BY Zenon DEF NoFrame

\* A process: its type, and what belongs to it.
LEMMA ProcTypes ==
  ASSUME ConsoleInv, NEW p \in Proc
  PROVE  proc[p] \in ProcType /\ Own(p)
BY Zenon DEF ConsoleInv, TypeInv, PlaceInv

\* A process that a CPU executes is RUNNING.
LEMMA RunsAt ==
  ASSUME ConsoleInv, NEW c \in CPU, NEW p \in Proc, NEW pc, At(c, p, pc)
  PROVE  proc[p].pc = pc /\ proc[p].state = "RUNNING" /\ proc[p] \in ProcType
BY AtFits, Zenon

-----------------------------------------------------------------------------
(* The actions that no one who sleeps or reads notices. *)

\* A new process has read nothing and sleeps on nothing.
LEMMA ForkretInput ==
  ASSUME ConsoleInv, InputInv, NEW c \in CPU, NEW p \in Proc, Forkret(c, p)
  PROVE  InputInv'
<1> USE Zenon
<1> DEFINE r == [proc[p] EXCEPT !.pc = "user"]
<1>1. /\ At(c, p, "forkret")
      /\ proc' = [proc EXCEPT ![p] = r] /\ UNCHANGED <<irq, input, ticks, line>>
  BY DEF Forkret
<1>2. proc[p].pc = "forkret" /\ proc[p].state = "RUNNING" /\ proc[p] \in ProcType
  BY <1>1, RunsAt
<1>3. r.state = "RUNNING" /\ r.pc = "user" /\ r.got = proc[p].got
  BY <1>2 DEF ProcType
<1> HIDE DEF r
<1>4. proc[p].pc \notin Reading
  BY <1>2 DEF Reading
<1> QED BY <1>1, <1>2, <1>3, <1>4, IrqSame, PlainInput

\* A process that comes back from sched() is no sleeper any more.
LEMMA AwakeInput ==
  ASSUME ConsoleInv, InputInv, NEW c \in CPU, NEW p \in Proc, Awake(c, p)
  PROVE  InputInv'
<1> USE Zenon
<1> DEFINE r == [proc[p] EXCEPT !.chan = "none", !.pc = "relock"]
<1>1. /\ At(c, p, "slept")
      /\ proc' = [proc EXCEPT ![p] = r] /\ UNCHANGED <<irq, input, ticks, line>>
  BY DEF Awake
<1>2. proc[p].pc = "slept" /\ proc[p].state = "RUNNING" /\ proc[p] \in ProcType
  BY <1>1, RunsAt
<1>3. /\ r.state = "RUNNING" /\ r.pc = "relock" /\ r.got = proc[p].got
      /\ r.n = proc[p].n /\ r.lk = proc[p].lk
  BY <1>2 DEF ProcType
<1> HIDE DEF r
<1>4. r.pc \in Reading
  BY <1>3 DEF Reading
<1> QED BY <1>1, <1>2, <1>3, <1>4, IrqSame, PlainInput

\* sleep() takes the caller's lock back and returns to the test.
LEMMA RelockInput ==
  ASSUME ConsoleInv, InputInv, NEW c \in CPU, NEW p \in Proc, Relock(c, p)
  PROVE  InputInv'
<1> USE Zenon
<1> DEFINE r == [proc[p] EXCEPT !.pc = IF proc[p].lk = "input" THEN "read" ELSE "nap"]
<1>1. /\ At(c, p, "relock")
      /\ proc' = [proc EXCEPT ![p] = r] /\ UNCHANGED <<irq, input, ticks, line>>
  BY DEF Relock
<1>2. proc[p].pc = "relock" /\ proc[p].state = "RUNNING" /\ proc[p] \in ProcType
  BY <1>1, RunsAt
<1>3. /\ r.state = "RUNNING" /\ r.pc = (IF proc[p].lk = "input" THEN "read" ELSE "nap")
      /\ r.got = proc[p].got /\ r.n = proc[p].n /\ r.lk = proc[p].lk
  BY <1>2 DEF ProcType
<1> HIDE DEF r
<1>4. r.pc # "sleep" /\ (proc[p].lk = "input" => r.pc \in Reading)
  BY <1>3 DEF Reading
<1> QED BY <1>1, <1>2, <1>3, <1>4, IrqSame, PlainInput

\* The end of a call
LEMMA EndInput ==
  ASSUME ConsoleInv, InputInv, NEW c \in CPU, NEW p \in Proc, NEW k, End(c, p, k),
         proc[p].state = "RUNNING", UNCHANGED <<irq, input, ticks, line>>
  PROVE  InputInv'
<1> USE Zenon
<1> DEFINE r == [proc[p] EXCEPT !.pc = Return(p), !.n = 0, !.got = <<>>,
                                !.ticks0 = 0, !.lk = "input"]
<1>1. proc' = [proc EXCEPT ![p] = r] /\ proc[p] \in ProcType
  BY ProcTypes DEF End
<1>2. r.state = "RUNNING" /\ r.pc = Return(p) /\ r.got = <<>>
  BY <1>1 DEF ProcType
<1> HIDE DEF r
<1>3. Return(p) # "sleep"
  BY DEF Return
<1> QED BY <1>1, <1>2, <1>3, IrqSame, PlainInput

\* The beginning of a call
LEMMA CallInput ==
  ASSUME ConsoleInv, InputInv, NEW c \in CPU, NEW p \in Proc, NEW k, NEW r, Call(c, p, k, r),
         r.state = proc[p].state, r.pc # "sleep", r.got = proc[p].got
  PROVE  InputInv'
<1> USE Zenon
<1>1. /\ At(c, p, "user")
      /\ proc' = [proc EXCEPT ![p] = r] /\ UNCHANGED <<irq, input, ticks, line>>
  BY DEF Call
<1>2. proc[p].pc = "user" /\ proc[p].state = "RUNNING"
  BY <1>1, RunsAt
<1>3. proc[p].pc \notin Reading
  BY <1>2 DEF Reading
<1> QED BY <1>1, <1>2, <1>3, IrqSame, PlainInput

\* A call that begins has read nothing.
LEMMA CallsInput ==
  ASSUME ConsoleInv, InputInv, NEW c \in CPU, NEW p \in Proc, NEW call, CallNext(c, p, call)
  PROVE  InputInv'
<1> USE Zenon
<1> DEFINE n == call[2]
           r1 == [proc[p] EXCEPT !.pc = "read", !.n = n]
           r2 == [proc[p] EXCEPT !.pc = "write"]
           r3 == [proc[p] EXCEPT !.pc = "ticks0", !.n = n, !.lk = "tickslock"]
           r4 == [proc[p] EXCEPT !.pc = "kill", !.n = n]
<1>1. proc[p] \in ProcType
  BY ProcTypes
<1>2. \/ Call(c, p, "input", r1) \/ Call(c, p, "cons", r2)
      \/ Call(c, p, "tickslock", r3) \/ Call(c, p, "ptable", r4)
  BY DEF CallNext, Consoleread, Consolewrite, SysSleep, SysKill
<1>3. /\ r1.state = proc[p].state /\ r1.pc = "read" /\ r1.got = proc[p].got
      /\ r2.state = proc[p].state /\ r2.pc = "write" /\ r2.got = proc[p].got
  BY <1>1 DEF ProcType
<1>4. /\ r3.state = proc[p].state /\ r3.pc = "ticks0" /\ r3.got = proc[p].got
      /\ r4.state = proc[p].state /\ r4.pc = "kill" /\ r4.got = proc[p].got
  BY <1>1 DEF ProcType
<1> HIDE DEF r1, r2, r3, r4
<1> QED BY <1>2, <1>3, <1>4, CallInput

\* A killed process exits instead of calling.
LEMMA SyscallKilledInput ==
  ASSUME ConsoleInv, InputInv, NEW c \in CPU, NEW p \in Proc, SyscallKilled(c, p)
  PROVE  InputInv'
<1> USE Zenon
<1> DEFINE r == [proc[p] EXCEPT !.pc = "exit"]
<1>1. /\ At(c, p, "user")
      /\ proc' = [proc EXCEPT ![p] = r] /\ UNCHANGED <<irq, input, ticks, line>>
  BY DEF SyscallKilled
<1>2. proc[p].pc = "user" /\ proc[p].state = "RUNNING" /\ proc[p] \in ProcType
  BY <1>1, RunsAt
<1>3. r.state = "RUNNING" /\ r.pc = "exit" /\ r.got = proc[p].got
  BY <1>2 DEF ProcType
<1> HIDE DEF r
<1>4. proc[p].pc \notin Reading
  BY <1>2 DEF Reading
<1> QED BY <1>1, <1>2, <1>3, <1>4, IrqSame, PlainInput

\* exit() changes nothing that a reader depends on.
LEMMA ExitInput ==
  ASSUME ConsoleInv, InputInv, NEW c \in CPU, NEW p \in Proc, Exit(c, p)
  PROVE  InputInv'
<1> USE Zenon
<1> DEFINE r == [proc[p] EXCEPT !.pc = "zombie"]
<1>1. /\ At(c, p, "exit")
      /\ proc' = [proc EXCEPT ![p] = r] /\ UNCHANGED <<irq, input, ticks, line>>
  BY DEF Exit
<1>2. proc[p].pc = "exit" /\ proc[p].state = "RUNNING" /\ proc[p] \in ProcType
  BY <1>1, RunsAt
<1>3. r.state = "RUNNING" /\ r.pc = "zombie" /\ r.got = proc[p].got
  BY <1>2 DEF ProcType
<1> HIDE DEF r
<1>4. proc[p].pc \notin Reading
  BY <1>2 DEF Reading
<1> QED BY <1>1, <1>2, <1>3, <1>4, IrqSame, PlainInput

\* A zombie sleeps on nothing.
LEMMA ZombieInput ==
  ASSUME ConsoleInv, InputInv, NEW c \in CPU, NEW p \in Proc, Zombie(c, p)
  PROVE  InputInv'
<1> USE Zenon
<1> DEFINE r == [proc[p] EXCEPT !.state = "ZOMBIE"]
<1>1. /\ At(c, p, "zombie")
      /\ proc' = [proc EXCEPT ![p] = r] /\ UNCHANGED <<irq, input, ticks, line>>
  BY DEF Zombie
<1>2. proc[p].pc = "zombie" /\ proc[p].state = "RUNNING" /\ proc[p] \in ProcType
  BY <1>1, RunsAt
<1>3. r.state = "ZOMBIE" /\ r.pc = proc[p].pc /\ r.got = proc[p].got
  BY <1>2 DEF ProcType
<1> HIDE DEF r
<1>4. proc[p].pc \notin Reading
  BY <1>2 DEF Reading
<1> QED BY <1>1, <1>2, <1>3, <1>4, IrqSame, PlainInput

\* sys_sleep() reads the clock and will test before it sleeps.
LEMMA Ticks0Input ==
  ASSUME ConsoleInv, InputInv, NEW c \in CPU, NEW p \in Proc, Ticks0(c, p)
  PROVE  InputInv'
<1> USE Zenon
<1> DEFINE r == [proc[p] EXCEPT !.ticks0 = ticks, !.pc = "nap"]
<1>1. /\ At(c, p, "ticks0")
      /\ proc' = [proc EXCEPT ![p] = r] /\ UNCHANGED <<irq, input, ticks, line>>
  BY DEF Ticks0
<1>2. proc[p].pc = "ticks0" /\ proc[p].state = "RUNNING" /\ proc[p] \in ProcType
  BY <1>1, RunsAt
<1>3. r.state = "RUNNING" /\ r.pc = "nap" /\ r.got = proc[p].got
  BY <1>2 DEF ProcType
<1> HIDE DEF r
<1>4. proc[p].pc \notin Reading
  BY <1>2 DEF Reading
<1> QED BY <1>1, <1>2, <1>3, <1>4, IrqSame, PlainInput

\* What kill() changes of the process that it kills is not what it waits for.
LEMMA KillInput ==
  ASSUME ConsoleInv, InputInv, NEW c \in CPU, NEW p \in Proc, Kill(c, p)
  PROVE  InputInv'
<1> USE Zenon
<1> DEFINE q == proc[p].n
           self == IF q = p THEN "exit" ELSE Return(p)
           r == [proc[p] EXCEPT !.pc = self, !.n = 0]
           v == [proc EXCEPT ![p] = r]
           z == [v[q] EXCEPT !.killed = TRUE,
                             !.state = IF v[q].state = "SLEEPING" THEN "RUNNABLE" ELSE v[q].state]
<1>1. At(c, p, "kill") /\ UNCHANGED <<irq, input, ticks, line>>
  BY DEF Kill
<1>2. proc[p].pc = "kill" /\ proc[p].state = "RUNNING" /\ proc[p] \in ProcType
  BY <1>1, RunsAt
<1>3. /\ r.pc = self /\ r.state = "RUNNING" /\ r.got = proc[p].got
      /\ DOMAIN r = DOMAIN proc[p]
  BY <1>2 DEF ProcType
<1>4. self # "sleep" /\ proc[p].pc \notin Reading
  BY <1>2 DEF Return, Reading
<1>5. v[p] = r /\ DOMAIN v = Proc /\ \A u \in Proc \ {p} : v[u] = proc[u]
  BY DEF ConsoleInv, TypeInv
<1>6. proc' = [v EXCEPT ![q].killed = TRUE,
                        ![q].state = IF @ = "SLEEPING" THEN "RUNNABLE" ELSE @]
  BY ZenonT(60) DEF Kill
<1>7. \A u \in Proc : DOMAIN v[u] = {"state", "chan", "killed", "pc", "intena", "n", "got", "ticks0", "lk", "calls"}
  <2>1. \A u \in Proc : DOMAIN proc[u] = {"state", "chan", "killed", "pc", "intena", "n", "got", "ticks0", "lk", "calls"}
    BY ProcTypes DEF ProcType
  <2> HIDE DEF v, r
  <2> QED BY <1>3, <1>5, <2>1
<1> HIDE DEF v, r, self
<1>8. ASSUME NEW u \in Proc
      PROVE  /\ proc'[u].pc = v[u].pc /\ proc'[u].lk = v[u].lk /\ proc'[u].chan = v[u].chan
             /\ proc'[u].n = v[u].n /\ proc'[u].got = v[u].got /\ proc'[u].ticks0 = v[u].ticks0
             /\ proc'[u].state = v[u].state \/ proc'[u].state = "RUNNABLE"
  <2>1. CASE u = q
    <3>1. proc' = [v EXCEPT ![q] = z]
      BY <1>6, <2>1
    <3>2. /\ z.pc = v[q].pc /\ z.lk = v[q].lk /\ z.chan = v[q].chan /\ z.n = v[q].n
          /\ z.got = v[q].got /\ z.ticks0 = v[q].ticks0
          /\ z.state = v[q].state \/ z.state = "RUNNABLE"
      BY <1>7, <2>1
    <3> HIDE DEF z
    <3> QED BY <1>5, <2>1, <3>1, <3>2
  <2>2. CASE u # q
    <3>1. proc'[u] = v[u]
      BY <1>5, <1>6, <2>2
    <3> QED BY <3>1
  <2> QED BY <2>1, <2>2
<1>9. ASSUME NEW u \in Proc
      PROVE  StillSleeps(u) /\ StillFalls(u) /\ KeepsGot(u)
  <2>1. CASE u = p
    BY <1>3, <1>4, <1>5, <1>8, <2>1 DEF StillSleeps, StillFalls, Falling, KeepsGot
  <2>2. CASE u # p
    <3>1. v[u] = proc[u]
      BY <1>5, <2>2
    <3> QED BY <1>8, <3>1 DEF StillSleeps, StillFalls, Falling, KeepsGot
  <2> QED BY <2>1, <2>2
<1> QED BY <1>1, <1>9, IrqSame, WakeQuiet, GotQuiet, BufferQuiet DEF InputInv

\* A process that is scheduled was not about to sleep.
LEMMA SchedulerScanInput ==
  ASSUME ConsoleInv, InputInv, NEW c \in CPU, SchedulerScan(c)
  PROVE  InputInv'
<1> USE Zenon
<1>1. UNCHANGED <<irq, input, ticks, line>>
  BY DEF SchedulerScan
<1>2. CASE UNCHANGED proc
  BY <1>1, <1>2, IrqSame, IdleInput
<1>3. ASSUME NEW p \in Proc, proc[p].state = "RUNNABLE", proc' = [proc EXCEPT ![p].state = "RUNNING"]
      PROVE  InputInv'
  <2> DEFINE r == [proc[p] EXCEPT !.state = "RUNNING"]
  <2>1. proc[p] \in ProcType /\ Own(p) /\ Pos(p) \in {"forkret", "slept", "yielded"}
    BY <1>3 DEF ConsoleInv, TypeInv, PlaceInv
  <2>2. proc[p].pc # "sleep"
    BY <2>1 DEF Pos, Base, Own
  <2>3. proc' = [proc EXCEPT ![p] = r]
    BY <1>3
  <2>4. /\ r.state = "RUNNING" /\ r.pc = proc[p].pc /\ r.got = proc[p].got
        /\ r.n = proc[p].n /\ r.lk = proc[p].lk
    BY <2>1 DEF ProcType
  <2> HIDE DEF r
  <2> QED BY <1>1, <2>2, <2>3, <2>4, IrqSame, PlainInput
<1> QED BY <1>2, <1>3 DEF SchedulerScan

\* Spin locks and the scheduler's own steps change nothing for readers.
LEMMA CpuInput ==
  ASSUME ConsoleInv, InputInv, NEW c \in CPU, CpuNext(c)
  PROVE  InputInv'
<1> USE Zenon
<1>1. CASE Xchg(c) \/ Sti(c) \/ SchedulerLock(c)
  <2>1. UNCHANGED <<proc, irq, input, ticks, line>>
    BY <1>1 DEF Xchg, Sti, SchedulerLock
  <2> QED BY <2>1, IrqSame, IdleInput
<1> QED BY <1>1, SchedulerScanInput DEF CpuNext

\* The handlers that change no process
LEMMA HandlerInput ==
  ASSUME ConsoleInv, InputInv, NEW c \in CPU, NEW t \in Thread,
         \/ Timer(c, t) \/ Drained(c, t) \/ List(c, t) \/ ListNext(c, t) \/ Iret(c, t)
         \/ \E d \in {"kbd", "uart"} : Devintr(c, t, d)
         \/ YieldLock(c, t) \/ Yielded(c, t)
  PROVE  InputInv'
<1> USE Zenon
<1>1. UNCHANGED <<proc, input, ticks, line>>
  BY DEF Timer, Drained, List, ListNext, Iret, Devintr, YieldLock, Yielded
<1>2. irq[t].step # "wake"
  <2>1. CASE Timer(c, t) \/ \E d \in {"kbd", "uart"} : Devintr(c, t, d)
    <3>1. m.cpu[c].on = t /\ m.cpu[c].iflag
      BY <2>1 DEF Timer, Devintr, Interrupt, Executes
    <3>2. InterruptFlag
      BY LockInvHolds DEF LockInv
    <3>3. irq[t] = NoFrame
      BY <3>1, <3>2 DEF InterruptFlag
    <3> QED BY <3>3, NoFrameIs
  <2>2. CASE Drained(c, t) \/ List(c, t) \/ ListNext(c, t)
    BY <2>2 DEF Drained, List, ListNext, InHandler
  <2>3. CASE Iret(c, t) \/ YieldLock(c, t) \/ Yielded(c, t)
    BY <2>3 DEF Iret, YieldLock, Yielded, InHandler
  <2> QED BY <2>1, <2>2, <2>3
<1>3. \E f, step : irq' = [irq EXCEPT ![t] = f] \/ irq' = [irq EXCEPT ![t].step = step]
  BY DEF Timer, Drained, List, ListNext, Iret, Devintr, YieldLock, Yielded
<1> QED BY <1>1, <1>2, <1>3, HandlerWakes, IdleInput

\* A process that exits from a handler has no read under way.
LEMMA TrapExitInput ==
  ASSUME ConsoleInv, InputInv, NEW c \in CPU, NEW p \in Proc, TrapExit(c, p)
  PROVE  InputInv'
<1> USE Zenon
<1> DEFINE r == [proc[p] EXCEPT !.pc = "exit"]
<1>1. /\ InHandler(c, p, "tail") /\ proc[p].pc = "user" /\ irq' = [irq EXCEPT ![p] = NoFrame]
      /\ proc' = [proc EXCEPT ![p] = r] /\ UNCHANGED <<input, ticks, line>>
  BY DEF TrapExit
<1>2. proc[p] \in ProcType /\ proc[p].state = "RUNNING" /\ irq[p].step = "tail" /\ p \in Thread
  BY <1>1, Threads DEF InHandler, Executes, ConsoleInv, TypeInv, PlaceInv
<1>3. r.state = "RUNNING" /\ r.pc = "exit" /\ r.got = proc[p].got
  BY <1>2 DEF ProcType
<1> HIDE DEF r
<1>4. proc[p].pc \notin Reading
  BY <1>1 DEF Reading
<1>5. \A u \in Thread : StillWakes(u)
  BY <1>1, <1>2, HandlerWakes
<1> QED BY <1>1, <1>3, <1>4, <1>5, PlainInput

\* yield() changes nothing for readers: who yields does not sleep.
LEMMA YieldInput ==
  ASSUME ConsoleInv, InputInv, NEW c \in CPU, NEW p \in Proc, Yield(c, p)
  PROVE  InputInv'
<1> USE Zenon
<1> DEFINE r == [proc[p] EXCEPT !.state = "RUNNABLE", !.intena = m.cpu[c].intena]
<1>1. /\ InHandler(c, p, "yield") /\ irq' = [irq EXCEPT ![p].step = "yielded"]
      /\ proc' = [proc EXCEPT ![p] = r] /\ UNCHANGED <<input, ticks, line>>
  BY DEF Yield
<1>2. proc[p] \in ProcType /\ Own(p) /\ irq[p].step = "yield" /\ p \in Thread
  BY <1>1, Threads, ProcTypes DEF InHandler
<1>3. /\ r.state = "RUNNABLE" /\ r.pc = proc[p].pc /\ r.got = proc[p].got
      /\ r.n = proc[p].n /\ r.lk = proc[p].lk
  BY <1>2 DEF ProcType
<1> HIDE DEF r
<1>4. proc[p].pc \in {"user", "relock", "exit"}
  <2>1. irq[p] # NoFrame
    BY <1>2, NoFrameIs
  <2> QED BY <1>2, <2>1 DEF Own
<1>5. \A u \in Thread : StillWakes(u)
  BY <1>1, <1>2, HandlerWakes
<1>6. proc[p].pc # "sleep"
  BY <1>4
<1> QED BY <1>1, <1>3, <1>5, <1>6, PlainInput

-----------------------------------------------------------------------------
(* Going to sleep, and what is done with the lock of those who may. *)

\* A process that is about to sleep holds the lock of its caller.
LEMMA FallingHolds ==
  ASSUME ConsoleInv, NEW q \in Proc, Falling(q), NEW c \in CPU, m.lock[proc[q].lk] = c
  PROVE  m.cpu[c].on = q /\ irq[q] = NoFrame
<1> USE Zenon
<1> DEFINE k == proc[q].lk
<1>1. PICK d \in CPU : m.cpu[d].on = q
  BY DEF ConsoleInv, PlaceInv, Falling
<1>2. irq[q] = NoFrame /\ k \in {"input", "tickslock"}
  <2>1. Own(q) /\ proc[q] \in ProcType
    BY ProcTypes
  <2> QED BY <2>1 DEF Own, Falling, ProcType
<1>3. Pos(q) = "sleep" /\ Locks(q) = {k, "ptable"}
  <2>1. Pos(q) = "sleep"
    BY <1>2 DEF Pos, Base, Falling
  <2>2. \A lk, i : LocksAt("sleep", lk, i) = {lk, "ptable"}
    BY DEF LocksAt
  <2> QED BY <2>1, <2>2 DEF Locks
<1>4. Fits(m, d, {k, "ptable"}, 2, "on")
  <2>1. DepthAt("sleep") = 2 /\ FlagAt("sleep") = "on"
    BY DEF DepthAt, FlagAt
  <2>2. Fit(d)
    BY DEF ConsoleInv, CpuInv
  <2>3. Fits(m, d, Locks(q), DepthAt(Pos(q)), FlagAt(Pos(q)))
    BY <1>1, <2>2 DEF Fit
  <2> QED BY <1>3, <2>1, <2>3
<1> HIDE DEF k
<1>5. m.cpu[d].spin # k /\ k \in Lock
  <2>1. 2 > 1
    BY SMT
  <2> QED BY <1>2, <1>4, <2>1 DEF Fits, Lock
<1>6. m.lock[k] = d
  BY <1>4, <1>5 DEF Fits
<1>7. d = c
  BY <1>6 DEF k
<1> QED BY <1>1, <1>2, <1>7

\* What holds a lock while it does not spin
LEMMA Holds ==
  ASSUME NEW c \in CPU, NEW k \in Lock, NEW locks, NEW depth, NEW flag,
         Fits(m, c, locks, depth, flag), m.cpu[c].spin = "no", k \in locks
  PROVE  m.lock[k] = c
BY Zenon DEF Fits, Lock

\* consoleread() and sys_sleep() go to sleep after a test.
LEMMA WaitInput ==
  ASSUME ConsoleInv, InputInv, NEW c \in CPU, NEW p \in Proc, Wait(c, p),
         proc[p].state = "RUNNING",
         IF proc[p].lk = "input" THEN input.r = input.w ELSE TooSoon(p),
         UNCHANGED <<irq, input, ticks, line>>
  PROVE  InputInv'
<1> USE Zenon
<1> DEFINE r == [proc[p] EXCEPT !.pc = "sleep"]
<1>1. proc[p] \in ProcType /\ proc' = [proc EXCEPT ![p] = r]
  BY ProcTypes DEF Wait
<1>2. /\ r.state = "RUNNING" /\ r.pc = "sleep" /\ r.got = proc[p].got /\ r.n = proc[p].n
      /\ r.lk = proc[p].lk /\ r.ticks0 = proc[p].ticks0
  BY <1>1 DEF ProcType
<1> HIDE DEF r
<1>3. proc'[p] = r /\ \A q \in Proc \ {p} : proc'[q] = proc[q]
  BY <1>1 DEF ConsoleInv, TypeInv
<1>4. \A q \in Proc : StillSleeps(q) /\ KeepsGot(q)
  <2>1. StillSleeps(p) /\ KeepsGot(p)
    BY <1>2, <1>3 DEF StillSleeps, KeepsGot, Reading
  <2>2. \A q \in Proc \ {p} : StillSleeps(q) /\ KeepsGot(q)
    BY <1>3 DEF StillSleeps, KeepsGot
  <2> QED BY <2>1, <2>2
<1>5. TestedInv'
  <2> SUFFICES ASSUME NEW q \in Proc, proc'[q].state = "RUNNING", proc'[q].pc = "sleep"
               PROVE  IF proc'[q].lk = "input" THEN input'.r = input'.w ELSE TooSoon(q)'
    BY DEF TestedInv
  <2>1. CASE q = p
    BY <1>2, <1>3, <2>1 DEF TooSoon
  <2>2. CASE q # p
    BY <1>3, <2>2 DEF InputInv, TestedInv, TooSoon
  <2> QED BY <2>1, <2>2
<1>6. NoLostWakeup' /\ NapEnds'
  BY <1>4, IrqSame, ReadersQuiet, NappersQuiet DEF InputInv, WakeupsArrive
<1> QED BY <1>4, <1>5, <1>6, GotQuiet, BufferQuiet DEF InputInv, WakeupsArrive

\* consoleread() goes to sleep() because it found the ring empty.
LEMMA ReadBlockInput ==
  ASSUME ConsoleInv, InputInv, NEW c \in CPU, NEW p \in Proc, ReadBlock(c, p)
  PROVE  InputInv'
<1> USE Zenon
<1>1. /\ At(c, p, "read") /\ input.r = input.w /\ UNCHANGED <<irq, input, ticks, line>>
      /\ End(c, p, "input") \/ Wait(c, p)
  BY DEF ReadBlock
<1>2. proc[p].pc = "read" /\ proc[p].state = "RUNNING" /\ proc[p] \in ProcType
  BY <1>1, RunsAt
<1>3. proc[p].lk = "input"
  BY <1>2, ProcTypes, InputLock
<1> QED BY <1>1, <1>2, <1>3, EndInput, WaitInput

\* sys_sleep() goes to sleep() because its ticks have not passed.
LEMMA NapInput ==
  ASSUME ConsoleInv, InputInv, NEW c \in CPU, NEW p \in Proc, Nap(c, p)
  PROVE  InputInv'
<1> USE Zenon
<1>1. /\ At(c, p, "nap") /\ UNCHANGED <<irq, input, ticks, line>>
      /\ End(c, p, "tickslock") \/ (TooSoon(p) /\ Wait(c, p))
  BY DEF Nap
<1>2. proc[p].pc = "nap" /\ proc[p].state = "RUNNING"
  BY <1>1, RunsAt
<1>3. proc[p].lk = "tickslock"
  BY <1>2, ProcTypes DEF Own
<1> QED BY <1>1, <1>2, <1>3, EndInput, WaitInput

\* The end of a call that read or wrote all that it was to
LEMMA EndsInput ==
  ASSUME ConsoleInv, InputInv, NEW c \in CPU, NEW p \in Proc, ReadEnd(c, p) \/ WriteEnd(c, p)
  PROVE  InputInv'
<1> USE Zenon
<1>1. /\ At(c, p, "read") \/ At(c, p, "write")
      /\ End(c, p, "input") \/ End(c, p, "cons")
      /\ UNCHANGED <<irq, input, ticks, line>>
  BY DEF ReadEnd, WriteEnd
<1>2. proc[p].state = "RUNNING"
  BY <1>1, RunsAt
<1> QED BY <1>1, <1>2, EndInput

\* sleep(): what was tested is still so, and no wakeup() can come in between.
LEMMA SleepInput ==
  ASSUME ConsoleInv, InputInv, NEW c \in CPU, NEW p \in Proc, Sleep(c, p)
  PROVE  InputInv'
<1> USE Zenon
<1> DEFINE r == [proc[p] EXCEPT !.chan = proc[p].lk, !.state = "SLEEPING",
                                !.pc = "slept", !.intena = m.cpu[c].intena]
<1>1. /\ At(c, p, "sleep")
      /\ proc' = [proc EXCEPT ![p] = r] /\ UNCHANGED <<irq, input, ticks, line>>
  BY DEF Sleep
<1>2. proc[p].pc = "sleep" /\ proc[p].state = "RUNNING" /\ proc[p] \in ProcType
  BY <1>1, RunsAt
<1>3. /\ r.state = "SLEEPING" /\ r.pc = "slept" /\ r.got = proc[p].got /\ r.n = proc[p].n
      /\ r.lk = proc[p].lk /\ r.ticks0 = proc[p].ticks0 /\ r.chan = proc[p].lk
  BY <1>2 DEF ProcType
<1> HIDE DEF r
<1>4. proc'[p] = r /\ \A q \in Proc \ {p} : proc'[q] = proc[q]
  BY <1>1 DEF ConsoleInv, TypeInv
<1>5. \A q \in Proc : StillFalls(q) /\ KeepsGot(q)
  <2>1. StillFalls(p) /\ KeepsGot(p)
    BY <1>3, <1>4 DEF StillFalls, Falling, KeepsGot, Reading
  <2>2. \A q \in Proc \ {p} : StillFalls(q) /\ KeepsGot(q)
    BY <1>4 DEF StillFalls, Falling, KeepsGot
  <2> QED BY <2>1, <2>2
<1>6. TestedInv' /\ GotInv' /\ BufferInv'
  BY <1>1, <1>5, TestedQuiet, GotQuiet, BufferQuiet DEF InputInv
<1>7. IF proc[p].lk = "input" THEN input.r = input.w ELSE TooSoon(p)
  BY <1>2 DEF InputInv, TestedInv
<1>8. \A devs : Waking(devs)' = Waking(devs)
  BY <1>1 DEF Waking
<1>9. NoLostWakeup'
  <2> SUFFICES ASSUME NEW q \in Proc, proc'[q].state = "SLEEPING", proc'[q].chan = "input"
               PROVE  input'.r = input'.w \/ Waking({"kbd", "uart"})'
    BY DEF NoLostWakeup
  <2>1. CASE q = p
    BY <1>1, <1>3, <1>4, <1>7, <2>1
  <2>2. CASE q # p
    BY <1>1, <1>4, <1>8, <2>2 DEF InputInv, WakeupsArrive, NoLostWakeup
  <2> QED BY <2>1, <2>2
<1>10. NapEnds'
  <2> SUFFICES ASSUME NEW q \in Proc, proc'[q].state = "SLEEPING", proc'[q].chan = "tickslock"
               PROVE  Uint(ticks' - proc'[q].ticks0) < proc'[q].n \/ Waking({"timer"})'
    BY DEF NapEnds
  <2>1. CASE q = p
    BY <1>1, <1>3, <1>4, <1>7, <2>1 DEF TooSoon
  <2>2. CASE q # p
    BY <1>1, <1>4, <1>8, <2>2 DEF InputInv, WakeupsArrive, NapEnds
  <2> QED BY <2>1, <2>2
<1> QED BY <1>6, <1>9, <1>10 DEF InputInv, WakeupsArrive

\* Nobody is about to sleep on a lock that a handler holds.
LEMMA NoneFalls ==
  ASSUME ConsoleInv, NEW c \in CPU, NEW t \in Thread, irq[t] # NoFrame, m.cpu[c].on = t,
         NEW k, m.lock[k] = c
  PROVE  \A q \in Proc : Falling(q) => proc[q].lk # k
BY FallingHolds, Zenon

\* The lock that a handler has at the steps that change what is waited for.
LEMMA HandlerHolds ==
  ASSUME ConsoleInv, NEW c \in CPU, NEW t \in Thread, NEW step \in {"tick", "getc", "wake"},
         InHandler(c, t, step)
  PROVE  /\ irq[t] # NoFrame /\ m.cpu[c].on = t /\ irq[t].step = step
         /\ step = "tick" => m.lock["tickslock"] = c
         /\ step = "getc" => m.lock["input"] = c
         /\ step = "wake" => m.lock[IF irq[t].dev = "timer" THEN "tickslock" ELSE "input"] = c
<1> USE Zenon
<1>1. step # "none"
  OBVIOUS
<1>2. /\ m.cpu[c].on = t /\ m.cpu[c].spin = "no" /\ irq[t] # NoFrame /\ irq[t].step = step
      /\ Fits(m, c, LocksAt(step, "input", irq[t].dev), DepthAt(step), FlagAt(step))
  BY <1>1, HandlerFits
<1>3. /\ "tickslock" \in LocksAt("tick", "input", irq[t].dev)
      /\ "input" \in LocksAt("getc", "input", irq[t].dev)
      /\ (IF irq[t].dev = "timer" THEN "tickslock" ELSE "input") \in LocksAt("wake", "input", irq[t].dev)
  BY DEF LocksAt
<1>4. {"tickslock", "input"} \subseteq Lock
  BY DEF Lock
<1> QED BY <1>2, <1>3, <1>4, Holds

\* The clock ticks: who sleeps until now is about to be woken, and nobody is
\* between the test of ticks and sleep().
LEMMA TickInput ==
  ASSUME ConsoleInv, InputInv, NEW c \in CPU, NEW t \in Thread, Tick(c, t)
  PROVE  InputInv'
<1> USE Zenon
<1>1. /\ InHandler(c, t, "tick") /\ irq' = [irq EXCEPT ![t].step = "wake"]
      /\ UNCHANGED <<proc, input, line>>
  BY DEF Tick
<1>2. /\ irq[t] # NoFrame /\ m.cpu[c].on = t /\ m.lock["tickslock"] = c /\ irq[t].step = "tick"
  BY <1>1, HandlerHolds
<1>3. \A q \in Proc : Falling(q) => proc[q].lk # "tickslock"
  BY <1>2, NoneFalls
<1>4. \A q \in Proc : StillSleeps(q) /\ StillFalls(q) /\ KeepsGot(q)
  BY <1>1 DEF StillSleeps, StillFalls, Falling, KeepsGot
<1>5. TestedInv'
  <2>1. \A q \in Proc : Falling(q) => proc[q].lk = "input"
    BY <1>3, ProcTypes DEF ProcType
  <2> QED BY <1>1, <1>4, <2>1, TestedQuiet DEF InputInv
<1>6. \A u \in Thread : StillWakes(u)
  BY <1>1, <1>2, HandlerWakes
<1>7. NoLostWakeup'
  BY <1>1, <1>4, <1>6, ReadersQuiet DEF InputInv, WakeupsArrive
<1>8. irq'[t].dev = "timer" /\ irq'[t].step = "wake"
  <2>1. "tick" # "none" /\ "tick" \in {"tick", "yield", "yielded"}
    BY SMT
  <2>2. irq[t].dev = "timer" /\ [irq[t] EXCEPT !.step = "wake"] = [dev |-> irq[t].dev, step |-> "wake"]
    BY <1>1, <2>1, FrameIs
  <2>3. irq'[t] = [irq[t] EXCEPT !.step = "wake"]
    BY <1>1 DEF ConsoleInv, TypeInv
  <2> QED BY <2>2, <2>3
<1>9. NapEnds'
  BY <1>8 DEF NapEnds, Waking
<1> QED BY <1>1, <1>4, <1>5, <1>7, <1>9, GotQuiet, BufferQuiet DEF InputInv, WakeupsArrive

\* wakeup(): everyone who sleeps on what the handler brought is RUNNABLE.
LEMMA WakeInput ==
  ASSUME ConsoleInv, InputInv, NEW c \in CPU, NEW t \in Thread, Wake(c, t)
  PROVE  InputInv'
<1> USE Zenon
<1> DEFINE timer == irq[t].dev = "timer"
           chan == IF timer THEN "tickslock" ELSE "input"
<1>1. /\ InHandler(c, t, "wake") /\ proc' = Wakeup1(chan)
      /\ irq' = [irq EXCEPT ![t].step = IF timer THEN "tail" ELSE "getc"]
      /\ UNCHANGED <<input, ticks, line>>
  BY DEF Wake
<1>2. irq[t].step = "wake" /\ irq[t].dev \in {"kbd", "uart", "timer"}
  BY <1>1, FrameIs DEF InHandler
<1>3. \A u \in Thread \ {t} : irq'[u] = irq[u]
  BY <1>1 DEF ConsoleInv, TypeInv
<1>4. \A q \in Proc :
         \/ proc'[q] = proc[q] /\ ~(proc[q].state = "SLEEPING" /\ proc[q].chan = chan)
         \/ /\ proc[q].state = "SLEEPING" /\ proc'[q].state = "RUNNABLE" /\ proc'[q].got = proc[q].got
            /\ proc'[q].n = proc[q].n /\ proc'[q].lk = proc[q].lk /\ proc'[q].pc = proc[q].pc
  <2> TAKE q \in Proc
  <2> DEFINE w == [proc[q] EXCEPT !.state = "RUNNABLE"]
  <2>1. proc'[q] = IF proc[q].state = "SLEEPING" /\ proc[q].chan = chan THEN w ELSE proc[q]
    BY <1>1 DEF Wakeup1
  <2>2. w.state = "RUNNABLE" /\ w.got = proc[q].got /\ w.n = proc[q].n /\ w.lk = proc[q].lk /\ w.pc = proc[q].pc
    BY ProcTypes DEF ProcType
  <2> HIDE DEF w
  <2> QED BY <2>1, <2>2
<1> HIDE DEF chan
<1>5. \A q \in Proc : StillSleeps(q) /\ StillFalls(q) /\ KeepsGot(q)
  <2> SUFFICES ASSUME NEW q \in Proc
               PROVE  StillSleeps(q) /\ StillFalls(q) /\ KeepsGot(q)
    OBVIOUS
  <2>1. CASE proc'[q] = proc[q]
    BY <2>1 DEF StillSleeps, StillFalls, Falling, KeepsGot
  <2>2. CASE proc'[q] # proc[q]
    BY <1>4, <2>2 DEF StillSleeps, StillFalls, Falling, KeepsGot
  <2> QED BY <2>1, <2>2
<1>6. \A q \in Proc : proc'[q].state = "SLEEPING" => proc'[q] = proc[q] /\ proc[q].chan # chan
  BY <1>4
<1>7. TestedInv' /\ GotInv' /\ BufferInv'
  BY <1>1, <1>5, TestedQuiet, GotQuiet, BufferQuiet DEF InputInv
<1>8. CASE timer
  <2>1. chan = "tickslock"
    BY <1>8 DEF chan
  <2>2. NapEnds'
    BY <1>6, <2>1 DEF NapEnds
  <2>3. Waking({"kbd", "uart"}) => Waking({"kbd", "uart"})'
    BY <1>3, <1>8 DEF Waking
  <2>4. NoLostWakeup'
    BY <1>1, <1>6, <2>3 DEF InputInv, WakeupsArrive, NoLostWakeup
  <2> QED BY <1>7, <2>2, <2>4 DEF InputInv, WakeupsArrive
<1>9. CASE ~timer
  <2>1. chan = "input"
    BY <1>9 DEF chan
  <2>2. NoLostWakeup'
    BY <1>6, <2>1 DEF NoLostWakeup
  <2>3. Waking({"timer"}) => Waking({"timer"})'
    BY <1>3, <1>9 DEF Waking
  <2>4. NapEnds'
    BY <1>1, <1>6, <2>3 DEF InputInv, WakeupsArrive, NapEnds
  <2> QED BY <1>7, <2>2, <2>4 DEF InputInv, WakeupsArrive
<1> QED BY <1>8, <1>9

-----------------------------------------------------------------------------
(* The ring. *)

\* The invariant of the ring, over its fields.
LEMMA RingIs ==
  BufferInv <=> Ring(input.buf, input.r, input.w, input.e, line)
BY Zenon DEF BufferInv, RingIsReadable, InOrder, StoredInv, Held, Given, Buf, Ring

-----------------------------------------------------------------------------
(* consoleread() takes a character, with the lock. *)

\* A read that had taken no newline takes one more character, and ends if it is
\* a newline.
LEMMA GotGrows ==
  ASSUME NEW g \in Seq(Char \ {"NUL"}), NEW x \in Char, x # "NUL", x # "^D", NEW n \in Nat, n > 0,
         \A i \in DOMAIN g : g[i] # "^D" /\ (g[i] = "LF" => i = Len(g) /\ n = 0),
         NEW k, x = "LF" => k = 0
  PROVE  /\ Append(g, x) \in Seq(Char \ {"NUL"})
         /\ \A i \in DOMAIN Append(g, x) :
               /\ Append(g, x)[i] # "^D"
               /\ Append(g, x)[i] = "LF" => i = Len(Append(g, x)) /\ k = 0
<1> USE Zenon
<1> DEFINE a == Append(g, x)
<1>1. /\ a \in Seq(Char \ {"NUL"}) /\ Len(a) = Len(g) + 1 /\ Len(g) \in Nat /\ DOMAIN a = 1 .. Len(g) + 1
      /\ DOMAIN g = 1 .. Len(g) /\ a[Len(g) + 1] = x /\ \A i \in 1 .. Len(g) : a[i] = g[i]
  BY SMT
<1> HIDE DEF a
<1>2. ASSUME NEW i \in DOMAIN a
      PROVE  a[i] # "^D" /\ (a[i] = "LF" => i = Len(a) /\ k = 0)
  <2>1. CASE i = Len(g) + 1
    BY <1>1, <2>1
  <2>2. CASE i \in 1 .. Len(g)
    <3>1. n # 0
      BY SMT
    <3>2. i \in DOMAIN g /\ a[i] = g[i]
      BY <1>1, <2>2
    <3> QED BY <3>1, <3>2
  <2>3. i \in 1 .. Len(g) \/ i = Len(g) + 1
    <3>1. i \in 1 .. Len(g) + 1
      BY <1>1
    <3> QED BY <1>1, <3>1, SMT
  <2> QED BY <2>1, <2>2, <2>3
<1> QED BY <1>1, <1>2 DEF a

\* The slots hold characters.
LEMMA SlotTypes ==
  ASSUME ConsoleInv
  PROVE  /\ input.buf \in [0 .. INPUT_BUF - 1 -> Char]
         /\ input.r \in 0 .. UINT - 1 /\ input.w \in 0 .. UINT - 1 /\ input.e \in 0 .. UINT - 1
         /\ \A i \in Int : input.buf[i % INPUT_BUF] \in Char
<1> USE Zenon
<1>1. /\ input.buf \in [0 .. INPUT_BUF - 1 -> Char]
      /\ input.r \in 0 .. UINT - 1 /\ input.w \in 0 .. UINT - 1 /\ input.e \in 0 .. UINT - 1
  BY IndexTypes DEF InputType
<1> QED BY <1>1, UintType

\* consoleread() takes the first character of the ring, or puts a ^D back that
\* is not the first of its read.
LEMMA ReadCharInput ==
  ASSUME ConsoleInv, InputInv, NEW c \in CPU, NEW p \in Proc, ReadChar(c, p)
  PROVE  InputInv'
<1> USE Zenon
<1> DEFINE x == Buf(input.r)
           eof == x = "^D"
           n == IF eof THEN 0 ELSE Left(proc[p].n, x)
           got == IF eof THEN proc[p].got ELSE Append(proc[p].got, x)
           next == IF eof THEN AfterEof(p) ELSE Uint(input.r + 1)
           r == [proc[p] EXCEPT !.n = n, !.got = got]
<1>1. /\ At(c, p, "read") /\ proc[p].n > 0 /\ input.r # input.w /\ UNCHANGED <<irq, ticks>>
      /\ proc' = [proc EXCEPT ![p] = r]
  BY DEF ReadChar
<1>2. /\ input' = [input EXCEPT !.r = next]
      /\ line' = IF eof /\ proc[p].got # <<>> THEN line ELSE Tail(line)
  BY DEF ReadChar
<1>3. /\ proc[p].pc = "read" /\ proc[p].state = "RUNNING" /\ proc[p] \in ProcType
      /\ irq[p] = NoFrame /\ m.cpu[c].on = p /\ m.cpu[c].spin = "no" /\ Own(p)
      /\ Fits(m, c, LocksAt("read", proc[p].lk, "none"), DepthAt("read"), FlagAt("read"))
  BY <1>1, AtFits
<1>4. x \in Char /\ proc[p].n \in Nat
  <2>1. x \in Char
    BY BufType, IndexTypes, SMT
  <2> QED BY <1>3, <2>1 DEF ProcType
<1>5. Ring(input.buf, input.r, input.w, input.e, line)
  BY RingIs DEF InputInv
<1>6. Ring(input.buf, Uint(input.r + 1), input.w, input.e, Tail(line)) /\ x # "NUL"
  BY <1>1, <1>5, SlotTypes, RingReads DEF Buf
<1>7. BufferInv'
  <2>1. input'.buf = input.buf /\ input'.r = next /\ input'.w = input.w /\ input'.e = input.e
    <3> HIDE DEF next
    <3> QED BY <1>2, IndexTypes DEF InputType
  <2>2. Ring(input.buf, next, input.w, input.e, line')
    BY <1>2, <1>5, <1>6 DEF AfterEof
  <2> HIDE DEF next
  <2>3. Ring(input'.buf, input'.r, input'.w, input'.e, line')
    BY <2>1, <2>2
  <2>4. BufferInv' <=> Ring(input'.buf, input'.r, input'.w, input'.e, line')
    BY DEF BufferInv, RingIsReadable, InOrder, StoredInv, Held, Given, Buf, Ring
  <2> QED BY <2>3, <2>4
<1>8. /\ r.state = "RUNNING" /\ r.pc = "read" /\ r.lk = proc[p].lk /\ r.n = n /\ r.got = got
  <2> HIDE DEF n, got
  <2> QED BY <1>3 DEF ProcType
<1> HIDE DEF r
<1>9. proc'[p] = r /\ \A q \in Proc \ {p} : proc'[q] = proc[q]
  BY <1>1 DEF ConsoleInv, TypeInv
<1>10. \A q \in Proc : StillSleeps(q) /\ StillFalls(q)
  <2>1. StillSleeps(p) /\ StillFalls(p)
    BY <1>8, <1>9 DEF StillSleeps, StillFalls, Falling
  <2>2. \A q \in Proc \ {p} : StillSleeps(q) /\ StillFalls(q)
    BY <1>9 DEF StillSleeps, StillFalls, Falling
  <2> QED BY <2>1, <2>2
<1>11. proc[p].lk = "input"
  BY <1>3, InputLock
<1>12. m.lock["input"] = c
  <2>1. "input" \in LocksAt("read", "input", "none") /\ "input" \in Lock
    BY DEF LocksAt, Lock
  <2> QED BY <1>3, <1>11, <2>1, Holds
<1>13. TestedInv'
  <2>1. \A q \in Proc : Falling(q) => proc[q].lk # "input"
    <3> SUFFICES ASSUME NEW q \in Proc, Falling(q), proc[q].lk = "input"
                 PROVE  FALSE
      OBVIOUS
    <3>1. m.cpu[c].on = q
      BY <1>12, FallingHolds
    <3> QED BY <1>3, <3>1 DEF Falling
  <2> QED BY <1>1, <1>10, <2>1, TestedQuiet DEF InputInv
<1>14. WakeupsArrive'
  BY <1>1, <1>10, IrqSame, ReadersQuiet, NappersQuiet DEF InputInv, WakeupsArrive
<1>15. GotInv'
  <2> SUFFICES ASSUME NEW q \in Proc
               PROVE  /\ proc'[q].got \in Seq(Char \ {"NUL"})
                      /\ proc'[q].got # <<>> => proc'[q].lk = "input" /\ proc'[q].pc \in Reading
                      /\ \A i \in DOMAIN proc'[q].got :
                            /\ proc'[q].got[i] # "^D"
                            /\ proc'[q].got[i] = "LF" => i = Len(proc'[q].got) /\ proc'[q].n = 0
    BY DEF GotInv
  <2>1. CASE q # p
    BY <1>9, <2>1 DEF InputInv, GotInv
  <2>2. /\ proc[p].got \in Seq(Char \ {"NUL"})
        /\ \A i \in DOMAIN proc[p].got :
              /\ proc[p].got[i] # "^D"
              /\ proc[p].got[i] = "LF" => i = Len(proc[p].got) /\ proc[p].n = 0
    BY DEF InputInv, GotInv
  <2>3. proc'[p].lk = "input" /\ proc'[p].pc \in Reading
    BY <1>8, <1>9, <1>11 DEF Reading
  <2>4. CASE q = p /\ eof
    <3>1. proc'[p].got = proc[p].got /\ proc'[p].n = 0
      BY <1>8, <1>9, <2>4
    <3> QED BY <2>2, <2>3, <2>4, <3>1
  <2>5. CASE q = p /\ ~eof
    <3>1. proc'[p].got = Append(proc[p].got, x) /\ proc'[p].n = Left(proc[p].n, x)
      BY <1>8, <1>9, <2>5
    <3>2. x = "LF" => Left(proc[p].n, x) = 0
      BY DEF Left
    <3> HIDE DEF x
    <3>3. /\ Append(proc[p].got, x) \in Seq(Char \ {"NUL"})
          /\ \A i \in DOMAIN Append(proc[p].got, x) :
                /\ Append(proc[p].got, x)[i] # "^D"
                /\ Append(proc[p].got, x)[i] = "LF" => i = Len(Append(proc[p].got, x)) /\ Left(proc[p].n, x) = 0
      BY <1>1, <1>4, <1>6, <2>2, <2>5, <3>2, GotGrows
    <3> QED BY <2>3, <2>5, <3>1, <3>3
  <2> QED BY <2>1, <2>4, <2>5
<1> QED BY <1>7, <1>13, <1>14, <1>15 DEF InputInv

-----------------------------------------------------------------------------
(* consoleintr() changes the buffer, with the lock. *)

\* The invariant of the ring after a step, over its fields.
LEMMA RingIsNext ==
  BufferInv' <=> Ring(input'.buf, input'.r, input'.w, input'.e, line')
BY Zenon DEF BufferInv, RingIsReadable, InOrder, StoredInv, Held, Given, Buf, Ring

\* Readers see nothing new, or are about to be woken.
LEMMA GetcQuiet ==
  ASSUME ConsoleInv, InputInv, NEW c \in CPU, NEW t \in Thread, InHandler(c, t, "getc"),
         UNCHANGED <<proc, ticks>>, \A u \in Thread : StillWakes(u), input'.r = input.r,
         input'.w = input.w \/ Waking({"kbd", "uart"})', BufferInv'
  PROVE  InputInv'
<1> USE Zenon
<1>1. irq[t] # NoFrame /\ m.cpu[c].on = t /\ m.lock["input"] = c
  BY HandlerHolds
<1>2. \A q \in Proc : Falling(q) => proc[q].lk # "input"
  BY <1>1, NoneFalls
<1>3. \A q \in Proc : StillSleeps(q) /\ StillFalls(q) /\ KeepsGot(q)
  BY DEF StillSleeps, StillFalls, Falling, KeepsGot
<1>4. TestedInv'
  BY <1>2, <1>3, TestedQuiet DEF InputInv
<1>5. NapEnds' /\ GotInv'
  BY <1>3, NappersQuiet, GotQuiet DEF InputInv, WakeupsArrive
<1>6. NoLostWakeup'
  <2>1. CASE input'.w = input.w
    BY <1>3, <2>1, ReadersQuiet DEF InputInv, WakeupsArrive
  <2>2. CASE Waking({"kbd", "uart"})'
    BY <2>2 DEF NoLostWakeup
  <2> QED BY <2>1, <2>2
<1> QED BY <1>4, <1>5, <1>6 DEF InputInv, WakeupsArrive

\* consoleintr(): a character is stored.
LEMMA StoreInput ==
  ASSUME ConsoleInv, InputInv, NEW c \in CPU, NEW t \in Thread, InHandler(c, t, "getc"),
         NEW x \in Char, x # "NUL", Uint(input.e - input.r) < INPUT_BUF, Store(c, t, x),
         UNCHANGED <<proc, ticks>>
  PROVE  InputInv'
<1> USE Zenon
<1> DEFINE f == Uint(input.e + 1)
           b == [input.buf EXCEPT ![input.e % INPUT_BUF] = x]
           stored == [input EXCEPT !.buf[input.e % INPUT_BUF] = x, !.e = f]
           new == [i \in 1 .. Uint(f - input.w) |-> b[(input.w + i - 1) % INPUT_BUF]]
<1>1. /\ stored.buf = b /\ stored.e = f /\ stored.r = input.r /\ stored.w = input.w
      /\ DOMAIN stored = {"buf", "r", "w", "e"}
  <2>1. stored = [input EXCEPT !.buf = b, !.e = f]
    OBVIOUS
  <2> HIDE DEF stored, b, f
  <2> QED BY <2>1, IndexTypes DEF InputType
<1>2. Ring(input.buf, input.r, input.w, input.e, line)
  BY RingIs DEF InputInv
<1>3. irq[t].step = "getc" /\ irq[t].dev \in {"kbd", "uart"}
  <2>1. "getc" # "none"
    BY SMT
  <2> QED BY <2>1, FrameIs DEF InHandler
<1>4. CASE Commits(x, f)
  <2>1. /\ input' = [stored EXCEPT !.w = f] /\ irq' = [irq EXCEPT ![t].step = "wake"]
        /\ line' = line \o [i \in 1 .. Uint(f - input.w) |-> stored.buf[(input.w + i - 1) % INPUT_BUF]]
    BY <1>4 DEF Store
  <2> HIDE DEF stored
  <2>2. line' = line \o new
    <3> HIDE DEF b, f
    <3>1. [i \in 1 .. Uint(f - input.w) |-> stored.buf[(input.w + i - 1) % INPUT_BUF]] = new
      BY <1>1
    <3> HIDE DEF new
    <3> QED BY <2>1, <3>1 DEF f
  <2>3. input'.buf = b /\ input'.r = input.r /\ input'.w = f /\ input'.e = f
    <3> HIDE DEF b, f
    <3> QED BY <1>1, <2>1
  <2>4. Ring(b, input.r, f, f, line \o new)
    BY <1>2, SlotTypes, RingCommits
  <2> HIDE DEF b, f, new
  <2>5. BufferInv'
    BY <2>2, <2>3, <2>4, RingIsNext
  <2>6. \A u \in Thread : StillWakes(u)
    BY <1>3, <2>1, HandlerWakes
  <2>7. irq'[t].dev \in {"kbd", "uart"} /\ irq'[t].step = "wake"
    <3>1. [irq[t] EXCEPT !.step = "wake"] = [dev |-> irq[t].dev, step |-> "wake"]
      BY <1>3, FrameIs DEF InHandler
    <3>2. irq'[t] = [irq[t] EXCEPT !.step = "wake"]
      BY <2>1 DEF ConsoleInv, TypeInv
    <3> QED BY <1>3, <3>1, <3>2
  <2>8. Waking({"kbd", "uart"})'
    BY <2>7 DEF Waking
  <2> QED BY <2>3, <2>5, <2>6, <2>8, GetcQuiet
<1>5. CASE ~Commits(x, f)
  <2>1. input' = stored /\ UNCHANGED <<irq, line>>
    BY <1>5 DEF Store
  <2>2. f # Uint(input.r + INPUT_BUF)
    BY <1>5 DEF Commits
  <2>3. Ring(b, input.r, input.w, f, line)
    BY <1>2, <2>2, SlotTypes, RingStores
  <2> HIDE DEF stored, b, f
  <2>4. BufferInv'
    BY <1>1, <2>1, <2>3, RingIsNext
  <2> QED BY <1>1, <2>1, <2>4, IrqSame, GetcQuiet
<1> QED BY <1>4, <1>5

\* consoleintr()
LEMMA GetcInput ==
  ASSUME ConsoleInv, InputInv, NEW c \in CPU, NEW t \in Thread, Getc(c, t)
  PROVE  InputInv'
<1> USE Zenon
<1> DEFINE d == irq[t].dev
           got == IF d = "kbd" THEN Kbdgetc(Head(dev.kbd)) ELSE Uartgetc(Head(dev.uart))
           x == got.c
           y == IF x = "CR" THEN "LF" ELSE x
<1>1. InHandler(c, t, "getc") /\ dev[d] # <<>> /\ UNCHANGED <<proc, ticks>>
  BY DEF Getc
<1>2. d \in {"kbd", "uart"} /\ irq[t].step = "getc"
  <2>1. "getc" # "none"
    BY SMT
  <2> QED BY <1>1, <2>1, FrameIs
<1>3. x \in Sent
  BY <1>1, <1>2, GotTypes DEF ConsoleInv, TypeInv, DevicesType
<1>4. \/ irq' = [irq EXCEPT ![t].step = "list"] /\ UNCHANGED <<input, line>>
      \/ UNCHANGED <<irq, input, line>>
      \/ \E k \in 0 .. Uint(input.e - input.w) :
            input' = [input EXCEPT !.e = Uint(input.e - k)] /\ UNCHANGED <<irq, line>>
      \/ input' = [input EXCEPT !.e = IF @ # input.w THEN Uint(@ - 1) ELSE @] /\ UNCHANGED <<irq, line>>
      \/ x \notin {"^P", "^R", "^U", "^H", "DEL"} /\ Accepts(x) /\ Store(c, t, y)
  <2> HIDE DEF x
  <2> QED BY DEF Getc, x
<1> HIDE DEF x, d
<1>5. CASE irq' = [irq EXCEPT ![t].step = "list"] /\ UNCHANGED <<input, line>>
  <2>1. \A u \in Thread : StillWakes(u)
    BY <1>2, <1>5, HandlerWakes
  <2> QED BY <1>1, <1>5, <2>1, IdleInput
<1>6. CASE UNCHANGED <<irq, input, line>>
  BY <1>1, <1>6, IrqSame, IdleInput
<1>7. ASSUME NEW k \in 0 .. Uint(input.e - input.w), input' = [input EXCEPT !.e = Uint(input.e - k)],
             UNCHANGED <<irq, line>>
      PROVE  InputInv'
  <2>1. /\ input'.buf = input.buf /\ input'.r = input.r /\ input'.w = input.w
        /\ input'.e = Uint(input.e - k)
    BY <1>7, IndexTypes DEF InputType
  <2>2. Ring(input.buf, input.r, input.w, Uint(input.e - k), line)
    BY RingIs, SlotTypes, RingShrinks DEF InputInv
  <2>3. BufferInv'
    BY <1>7, <2>1, <2>2, RingIsNext
  <2> QED BY <1>1, <1>7, <2>1, <2>3, IrqSame, GetcQuiet
<1>8. CASE input' = [input EXCEPT !.e = IF @ # input.w THEN Uint(@ - 1) ELSE @] /\ UNCHANGED <<irq, line>>
  <2>1. CASE input.e = input.w
    <3>1. input' = input
      BY <1>8, <2>1, IndexTypes DEF InputType
    <3> QED BY <1>6, <1>8, <3>1
  <2>2. CASE input.e # input.w
    <3>1. input' = [input EXCEPT !.e = Uint(input.e - 1)]
      BY <1>8, <2>2
    <3>2. 1 \in 0 .. Uint(input.e - input.w)
      <4>1. Uint(input.e - input.w) = IF input.e >= input.w THEN input.e - input.w ELSE input.e - input.w + UINT
        BY SlotTypes, UintDiff
      <4>2. /\ input.e \in Int /\ 0 <= input.e /\ input.e < UINT
            /\ input.w \in Int /\ 0 <= input.w /\ input.w < UINT /\ UINT \in Int
        <5>1. input.e \in 0 .. UINT - 1 /\ input.w \in 0 .. UINT - 1
          BY SlotTypes
        <5> QED BY ONLY <5>1, Sizes
      <4>3. Uint(input.e - input.w) \in Int /\ Uint(input.e - input.w) >= 1
        <5>1. CASE input.e >= input.w
          BY ONLY <2>2, <4>1, <4>2, <5>1
        <5>2. CASE input.e < input.w
          BY ONLY <2>2, <4>1, <4>2, <5>2
        <5> QED BY ONLY <4>2, <5>1, <5>2
      <4> QED BY ONLY <4>3
    <3> QED BY <1>7, <1>8, <3>1, <3>2
  <2> QED BY <2>1, <2>2
<1>9. CASE x \notin {"^P", "^R", "^U", "^H", "DEL"} /\ Accepts(x) /\ Store(c, t, y)
  <2>1. y \in Char /\ y # "NUL" /\ Uint(input.e - input.r) < INPUT_BUF
    BY <1>3, <1>9 DEF Sent, Char, Accepts
  <2> HIDE DEF y
  <2> QED BY <1>1, <1>9, <2>1, StoreInput
<1> QED BY <1>4, <1>5, <1>6, <1>7, <1>8, <1>9

-----------------------------------------------------------------------------
(* The invariant. *)

\* At boot nobody sleeps and the ring is empty.
LEMMA InputInitInv ==
  ASSUME Init
  PROVE  InputInv
<1> USE Zenon
<1>1. /\ input = [buf |-> [i \in 0 .. INPUT_BUF - 1 |-> "NUL"], r |-> 0, w |-> 0, e |-> 0]
      /\ line = <<>>
  BY DEF Init
<1>2. \A p \in Proc : proc[p].state = "RUNNABLE" /\ proc[p].got = <<>>
  <2>1. PICK s \in Scenarios :
            proc = [p \in Proc |->
                        [state |-> "RUNNABLE", chan |-> "none", killed |-> FALSE,
                         pc |-> "forkret", intena |-> FALSE, n |-> 0, got |-> <<>>,
                         ticks0 |-> 0, lk |-> "input", calls |-> s.calls[p]]]
    BY DEF Init
  <2> QED BY <2>1
<1>3. TestedInv /\ WakeupsArrive
  BY <1>2 DEF TestedInv, WakeupsArrive, NoLostWakeup, NapEnds
<1>4. GotInv
  <2>1. <<>> \in Seq(Char \ {"NUL"}) /\ \A i \in DOMAIN <<>> : FALSE
    BY SMT
  <2> QED BY <1>2, <2>1 DEF GotInv
<1>5. BufferInv
  <2>1. input.r = 0 /\ input.w = 0 /\ input.e = 0
    BY <1>1
  <2>2. Given = 0 /\ Held = 0
    BY <2>1, Sizes, SMT DEF Given, Held, Uint
  <2>3. INPUT_BUF \in Nat \ {0}
    BY Sizes, SMT
  <2>4. StoredInv
    BY <2>2, SMT DEF StoredInv
  <2>5. RingIsReadable
    BY <2>2, <2>3, SMT DEF RingIsReadable
  <2>6. InOrder
    <3>1. \A f : [i \in 1 .. 0 |-> f[i]] = << >>
      BY SMT
    <3> DEFINE g == [i \in 1 .. 0 |-> Buf(input.r + i - 1)]
    <3>2. g = [i \in 1 .. 0 |-> g[i]]
      OBVIOUS
    <3>3. g = <<>>
      <4> HIDE DEF g
      <4> QED BY <3>1, <3>2
    <3> QED BY <1>1, <2>2, <3>3 DEF InOrder
  <2> QED BY <2>4, <2>5, <2>6 DEF BufferInv
<1> QED BY <1>3, <1>4, <1>5 DEF InputInv

\* Every step keeps the invariant: one lemma for each action.
LEMMA InputNextInv ==
  ASSUME ConsoleInv, InputInv, [Next]_vars
  PROVE  InputInv'
<1> USE Zenon
<1>1. ASSUME NEW c \in CPU, CpuNext(c)
      PROVE  InputInv'
  BY <1>1, CpuInput
<1>2. ASSUME NEW c \in CPU, NEW p \in Proc, ProcNext(c, p)
      PROVE  InputInv'
  <2>1. YieldLock(c, p) \/ Yielded(c, p) => InputInv'
    BY Threads, HandlerInput
  <2> QED BY <1>2, <2>1, ForkretInput, SleepInput, AwakeInput, RelockInput, SyscallKilledInput,
          ExitInput, ZombieInput, ReadBlockInput, ReadCharInput, EndsInput, Ticks0Input, NapInput,
          KillInput, TrapExitInput, YieldInput DEF ProcNext
<1>3. ASSUME NEW c \in CPU, NEW p \in Proc, NEW call \in proc[p].calls, CallNext(c, p, call)
      PROVE  InputInv'
  BY <1>3, CallsInput
<1>4. ASSUME NEW c \in CPU, NEW t \in Thread, HandlerNext(c, t)
      PROVE  InputInv'
  BY <1>4, HandlerInput, TickInput, GetcInput, WakeInput DEF HandlerNext
<1>5. CASE Key \/ SerialChar \/ UNCHANGED vars
  <2>1. UNCHANGED <<proc, irq, input, ticks, line>>
    BY <1>5 DEF Key, SerialChar, vars
  <2> QED BY <2>1, IrqSame, IdleInput
<1> QED BY <1>1, <1>2, <1>3, <1>4, <1>5, NextIs

\* A process that is about to sleep has tested, with the lock that it still
\* holds, what it waits for; who sleeps has nothing to read or will be woken; what
\* a read has taken is less than a line or ends one; and the ring is as it must
\* be.  With ConsoleInv this is inductive.
THEOREM InputInvariant == Spec => [](ConsoleInv /\ InputInv)
<1>1. Init => ConsoleInv /\ InputInv
  BY ConsoleInitInv, InputInitInv, Zenon
<1>2. ConsoleInv /\ InputInv /\ [Next]_vars => (ConsoleInv /\ InputInv)'
  BY ConsoleNextInv, InputNextInv, Zenon
<1> QED BY <1>1, <1>2, PTL DEF Spec

\* No process sleeps in consoleread() while there is something to read, or in
\* sys_sleep() when its ticks have passed, unless the handler that made it so has
\* still to call wakeup(): wherever an interrupt comes between a test and sleep(),
\* on whatever CPU, and also when ticks wraps.
THEOREM NoWakeupIsLost == Spec => []WakeupsArrive
<1>1. ConsoleInv /\ InputInv => WakeupsArrive
  BY Zenon DEF InputInv
<1> QED BY <1>1, InputInvariant, PTL

\* What consoleread() has copied has no ^D in it and no newline but at its end,
\* however many processes read and however often they slept in between.
THEOREM AReadTakesOneLine == Spec => []LineAtATime
<1>1. ConsoleInv /\ InputInv => LineAtATime
  BY Zenon DEF InputInv, GotInv, LineAtATime
<1> QED BY <1>1, InputInvariant, PTL

\* What the two invariants say of the ring and of types.
LEMMA RingInvHolds ==
  ASSUME ConsoleInv, InputInv
  PROVE  RingInv
<1> USE Zenon
<1>1. RingIsReadable /\ InOrder /\ StoredInv
  BY DEF InputInv, BufferInv
<1>2. ASSUME NEW c \in CPU
      PROVE  /\ m.cpu[c].on \in Proc \cup {c} /\ m.cpu[c].ncli \in 0 .. 2
             /\ m.cpu[c].spin \in Lock \cup {"no"}
  <2>1. m.cpu[c].on \in Proc \cup {c} /\ m.cpu[c] \in CpuType /\ m.cpu[c].ncli = DepthAt(Pos(m.cpu[c].on))
    BY DEF ConsoleInv, TypeInv, Machine, CpuInv, Fit, Fits
  <2>2. \A pos : DepthAt(pos) \in 0 .. 2
    BY SMT DEF DepthAt
  <2>3. m.cpu[c].spin \in Lock \cup {"no"}
    BY <2>1 DEF CpuType
  <2>4. m.cpu[c].ncli \in 0 .. 2
    BY <2>1, <2>2
  <2> QED BY <2>1, <2>3, <2>4
<1>3. m.lock \in [Lock -> CPU \cup {NoCPU}]
  BY DEF ConsoleInv, TypeInv, Machine
<1>4. ASSUME NEW p \in Proc
      PROVE  /\ proc[p].state \in {"RUNNABLE", "RUNNING", "SLEEPING", "ZOMBIE"}
             /\ proc[p].got \in Seq(Char \ {"NUL"})
  <2>1. proc[p].state \in {"RUNNABLE", "RUNNING", "SLEEPING", "ZOMBIE"}
    BY ProcTypes DEF ProcType
  <2> QED BY <2>1 DEF InputInv, GotInv
<1>5. {input.r, input.w, input.e, ticks} \subseteq 0 .. UINT - 1
  BY SlotTypes DEF ConsoleInv, TypeInv, DevicesType
<1>6. line \in Seq(Char \ {"NUL"})
  <2>1. /\ Given \in 0 .. UINT - 1 /\ Held \in 0 .. UINT - 1 /\ Given <= Held
        /\ line = [i \in 1 .. Given |-> Buf(input.r + i - 1)]
    BY <1>1, SlotTypes, UintDiff DEF Given, Held, RingIsReadable, InOrder
  <2>2. input.r \in Int /\ UINT \in Int
    BY SlotTypes, Sizes, SMT
  <2>3. ASSUME NEW i \in 1 .. Given
        PROVE  Buf(input.r + i - 1) \in Char \ {"NUL"}
    <3>1. i - 1 \in 0 .. Held - 1 /\ input.r + (i - 1) = input.r + i - 1 /\ input.r + i - 1 \in Int
      BY ONLY <2>1, <2>2, <2>3
    <3>2. Buf(input.r + (i - 1)) # "NUL"
      BY <1>1, <3>1 DEF StoredInv
    <3> QED BY <3>1, <3>2, BufType
  <2>4. Given \in Nat
    BY ONLY <2>1, <2>2
  <2>5. \A i \in 1 .. Given : Buf(input.r + i - 1) \in Char \ {"NUL"}
    BY <2>3
  <2> QED BY ONLY <2>1, <2>4, <2>5
<1>7. TypeOK
  BY <1>2, <1>3, <1>4, <1>5, <1>6, SlotTypes DEF TypeOK
<1> QED BY <1>1, <1>7 DEF RingInv

\* Readers get the characters of the lines that were completed, in order, each
\* once and none a zero, whatever is edited meanwhile and also when the indices
\* wrap; the ring never holds more than its size, and when it is full all of it
\* can be read.  No CPU ever has more than two locks.
THEOREM RingHoldsWhatWasTyped == Spec => []RingInv
<1>1. ConsoleInv /\ InputInv => RingInv
  BY RingInvHolds, Zenon
<1> QED BY <1>1, InputInvariant, PTL

-----------------------------------------------------------------------------
(* The modifiers of the keyboard. *)

E0 == [key |-> "E0", up |-> FALSE]

\* With these modifiers on, one of the keys of each is down.
Backed(ctl, shift, down) ==
    (ctl => down \cap {"ctl", "rctl"} # {}) /\ (shift => "shift" \in down)

\* What of a key is not read: nothing, its byte, or an escape and its byte.  The
\* modifiers are on as the keys are down, but for what is not read.
Modifiers(kbd, shift, down) ==
    \/ kbd = <<>> /\ Backed("CTL" \in shift, "SHIFT" \in shift, down) /\ "E0ESC" \notin shift
    \/ \E b \in Byte :
          /\ b.key # "E0"
          /\ Backed(IF b.key = "ctl" THEN ~b.up ELSE "CTL" \in shift,
                   IF b.key = "shift" THEN ~b.up ELSE "SHIFT" \in shift, down)
          /\ \/ kbd = <<b>> /\ ("E0ESC" \in shift => b.key = "ctl")
             \/ kbd = <<E0, b>> /\ b.key = "ctl" /\ "E0ESC" \notin shift

ModifierInv == Modifiers(dev.kbd, dev.shift, dev.down)

\* A key goes down or up: k is the key, b the last byte that it sends.
LEMMA KeyModifiers ==
  ASSUME NEW k \in {"a", "d", "h", "u", "ret", "ctl", "rctl", "shift", "caps"}, NEW up \in BOOLEAN,
         NEW shift, NEW down, Modifiers(<<>>, shift, down)
  PROVE  Modifiers(Bytes(k, up), shift, IF up THEN down \ {k} ELSE down \cup {k})
<1> USE Zenon
<1> DEFINE b == [key |-> IF k = "rctl" THEN "ctl" ELSE k, up |-> up]
           after == IF up THEN down \ {k} ELSE down \cup {k}
<1>1. Backed("CTL" \in shift, "SHIFT" \in shift, down) /\ "E0ESC" \notin shift
  <2>1. \A x, y : <<x>> # <<>> /\ <<x, y>> # <<>>
    BY SMT
  <2> QED BY <2>1 DEF Modifiers
<1>2. b \in Byte /\ b.key # "E0" /\ b.up = up /\ b.key = (IF k = "rctl" THEN "ctl" ELSE k)
  BY DEF Byte
<1>3. /\ k = "rctl" => Bytes(k, up) = <<E0, b>> /\ b.key = "ctl"
      /\ k # "rctl" => Bytes(k, up) = <<b>>
  BY DEF Bytes, E0
<1> HIDE DEF b
<1>4. (IF b.key = "ctl" THEN ~b.up ELSE "CTL" \in shift) => after \cap {"ctl", "rctl"} # {}
  <2>1. CASE k \in {"ctl", "rctl"}
    BY <1>2, <2>1
  <2>2. CASE k \notin {"ctl", "rctl"}
    BY <1>1, <1>2, <2>2 DEF Backed
  <2> QED BY <2>1, <2>2
<1>5. (IF b.key = "shift" THEN ~b.up ELSE "SHIFT" \in shift) => "shift" \in after
  BY <1>1, <1>2 DEF Backed
<1> HIDE DEF after
<1>6. Modifiers(Bytes(k, up), shift, after)
  BY <1>1, <1>2, <1>3, <1>4, <1>5 DEF Modifiers, Backed
<1> QED BY <1>6 DEF after

\* kbdgetc() reads a byte.
LEMMA KbdModifiers ==
  ASSUME dev \in DevType, ModifierInv, dev.kbd # <<>>
  PROVE  Modifiers(Tail(dev.kbd), Kbdgetc(Head(dev.kbd)).shift, dev.down)
<1> USE Zenon
<1>1. PICK b \in Byte :
          /\ b.key # "E0"
          /\ Backed(IF b.key = "ctl" THEN ~b.up ELSE "CTL" \in dev.shift,
                   IF b.key = "shift" THEN ~b.up ELSE "SHIFT" \in dev.shift, dev.down)
          /\ \/ dev.kbd = <<b>> /\ ("E0ESC" \in dev.shift => b.key = "ctl")
             \/ dev.kbd = <<E0, b>> /\ b.key = "ctl" /\ "E0ESC" \notin dev.shift
  BY DEF ModifierInv, Modifiers
<1>2. CASE dev.kbd = <<E0, b>> /\ b.key = "ctl" /\ "E0ESC" \notin dev.shift
  <2> DEFINE shift == dev.shift \cup {"E0ESC"}
  <2>1. Head(dev.kbd) = E0 /\ Tail(dev.kbd) = <<b>>
    BY <1>2, SMT
  <2>2. Kbdgetc(E0).shift = shift
    <3>1. E0.key = "E0"
      BY DEF E0
    <3>2. Kbdgetc(E0) = [c |-> "NUL", shift |-> shift]
      BY <3>1 DEF Kbdgetc
    <3> QED BY <3>2, SMT
  <2>3. ("SHIFT" \in shift <=> "SHIFT" \in dev.shift) /\ ("CTL" \in shift <=> "CTL" \in dev.shift)
    OBVIOUS
  <2> HIDE DEF shift
  <2>4. Modifiers(<<b>>, shift, dev.down)
    BY <1>1, <1>2, <2>3 DEF Modifiers, Backed
  <2> QED BY <2>1, <2>2, <2>4
<1>3. CASE dev.kbd = <<b>> /\ ("E0ESC" \in dev.shift => b.key = "ctl")
  <2> DEFINE shift == Kbdgetc(b).shift
             code == Shiftcode(b.key, "E0ESC" \in dev.shift)
             toggle == Togglecode(b.key)
  <2>1. Head(dev.kbd) = b /\ Tail(dev.kbd) = <<>>
    BY <1>3, SMT
  <2>2. /\ "CTL" \in code <=> b.key = "ctl"
        /\ "SHIFT" \in code <=> b.key = "shift"
        /\ "E0ESC" \notin code /\ toggle \subseteq {"CAPSLOCK"}
    BY <1>3 DEF Shiftcode, Togglecode
  <2>3. Released(b) = dev.shift \ (code \cup {"E0ESC"})
    BY DEF Released
  <2>4. Pressed(b) = LET on == (dev.shift \ {"E0ESC"}) \cup code IN (on \ toggle) \cup (toggle \ on)
    BY DEF Pressed
  <2> HIDE DEF code, toggle
  <2>5. ASSUME b.up
        PROVE  /\ "CTL" \in shift <=> "CTL" \in dev.shift /\ b.key # "ctl"
               /\ "SHIFT" \in shift <=> "SHIFT" \in dev.shift /\ b.key # "shift"
               /\ "E0ESC" \notin shift
    <3>1. Kbdgetc(b) = [c |-> "NUL", shift |-> Released(b)]
      BY <1>1, <2>5 DEF Kbdgetc
    <3>2. shift = Released(b)
      BY <3>1, SMT
    <3>3. /\ "CTL" \in Released(b) <=> "CTL" \in dev.shift /\ b.key # "ctl"
          /\ "SHIFT" \in Released(b) <=> "SHIFT" \in dev.shift /\ b.key # "shift"
          /\ "E0ESC" \notin Released(b)
      BY <2>2, <2>3
    <3> HIDE DEF shift
    <3> QED BY <3>2, <3>3
  <2>6. ASSUME ~b.up
        PROVE  /\ "CTL" \in shift <=> "CTL" \in dev.shift \/ b.key = "ctl"
               /\ "SHIFT" \in shift <=> "SHIFT" \in dev.shift \/ b.key = "shift"
               /\ "E0ESC" \notin shift
    <3>1. shift = Pressed(b)
      BY <1>1, <2>6 DEF Kbdgetc
    <3>2. /\ "CTL" \in Pressed(b) <=> "CTL" \in dev.shift \/ b.key = "ctl"
          /\ "SHIFT" \in Pressed(b) <=> "SHIFT" \in dev.shift \/ b.key = "shift"
          /\ "E0ESC" \notin Pressed(b)
      BY <2>2, <2>4
    <3> HIDE DEF shift
    <3> QED BY <3>1, <3>2
  <2> HIDE DEF shift
  <2>7. Modifiers(<<>>, shift, dev.down)
    BY <1>1, <2>5, <2>6 DEF Modifiers, Backed
  <2> QED BY <2>1, <2>7 DEF shift
<1> QED BY <1>1, <1>2, <1>3

\* Only a key and consoleintr() change what the modifiers depend on.
LEMMA ModifierNext ==
  ASSUME ConsoleInv, ModifierInv, [Next]_vars
  PROVE  ModifierInv'
<1> USE Zenon
<1>1. dev \in DevType
  BY DEF ConsoleInv, TypeInv, DevicesType
<1>2. ASSUME dev'.kbd = dev.kbd, dev'.shift = dev.shift, dev'.down = dev.down
      PROVE  ModifierInv'
  BY <1>2 DEF ModifierInv
<1>3. dev' = dev => ModifierInv'
  BY <1>2
<1>4. ASSUME NEW c \in CPU, CpuNext(c)
      PROVE  ModifierInv'
  BY <1>3, <1>4 DEF CpuNext, Xchg, Sti, SchedulerLock, SchedulerScan
<1>5. ASSUME NEW c \in CPU, NEW p \in Proc, ProcNext(c, p)
      PROVE  ModifierInv'
  <2>1. Forkret(c, p) \/ Sleep(c, p) \/ Awake(c, p) \/ Relock(c, p) => dev' = dev
    BY DEF Forkret, Sleep, Awake, Relock
  <2>2. SyscallKilled(c, p) \/ Exit(c, p) \/ Zombie(c, p) => dev' = dev
    BY DEF SyscallKilled, Exit, Zombie
  <2>3. ReadBlock(c, p) \/ ReadChar(c, p) \/ ReadEnd(c, p) \/ WriteEnd(c, p) => dev' = dev
    BY DEF ReadBlock, ReadChar, ReadEnd, WriteEnd
  <2>4. Ticks0(c, p) \/ Nap(c, p) \/ Kill(c, p) => dev' = dev
    BY DEF Ticks0, Nap, Kill
  <2>5. TrapExit(c, p) \/ YieldLock(c, p) \/ Yield(c, p) \/ Yielded(c, p) => dev' = dev
    BY DEF TrapExit, YieldLock, Yield, Yielded
  <2> QED BY <1>3, <1>5, <2>1, <2>2, <2>3, <2>4, <2>5 DEF ProcNext
<1>6. ASSUME NEW c \in CPU, NEW p \in Proc, NEW call \in proc[p].calls, CallNext(c, p, call)
      PROVE  ModifierInv'
  BY <1>3, <1>6 DEF CallNext, Consoleread, Consolewrite, SysSleep, SysKill, Call
<1>7. ASSUME NEW c \in CPU, NEW t \in Thread, HandlerNext(c, t)
      PROVE  ModifierInv'
  <2>1. Timer(c, t) \/ Drained(c, t) \/ List(c, t) \/ ListNext(c, t) => dev' = dev
    BY DEF Timer, Drained, List, ListNext
  <2>2. Wake(c, t) \/ Iret(c, t) \/ (\E d \in {"kbd", "uart"} : Devintr(c, t, d)) => dev' = dev
    BY DEF Wake, Iret, Devintr
  <2>3. CASE Tick(c, t)
    <3>1. dev' = [dev EXCEPT !.ticks = @ - 1]
      BY <2>3 DEF Tick
    <3> QED BY <1>1, <1>2, <3>1 DEF DevType
  <2>4. CASE Getc(c, t)
    <3> DEFINE d == irq[t].dev
               got == IF d = "kbd" THEN Kbdgetc(Head(dev.kbd)) ELSE Uartgetc(Head(dev.uart))
    <3>1. InHandler(c, t, "getc") /\ dev[d] # <<>> /\ dev' = [dev EXCEPT ![d] = Tail(@), !.shift = got.shift]
      BY <2>4 DEF Getc
    <3>2. d \in {"kbd", "uart"}
      <4>1. "getc" # "none"
        BY SMT
      <4> QED BY <3>1, <4>1, FrameIs
    <3>3. CASE d = "kbd"
      <4>1. /\ dev.kbd # <<>>
            /\ dev' = [dev EXCEPT !.kbd = Tail(dev.kbd), !.shift = Kbdgetc(Head(dev.kbd)).shift]
        BY <3>1, <3>3
      <4>2. dev'.kbd = Tail(dev.kbd) /\ dev'.shift = Kbdgetc(Head(dev.kbd)).shift /\ dev'.down = dev.down
        BY <1>1, <4>1 DEF DevType
      <4> QED BY <1>1, <4>1, <4>2, KbdModifiers DEF ModifierInv
    <3>4. CASE d = "uart"
      <4>1. got.shift = dev.shift
        <5>1. got = [c |-> Head(dev.uart), shift |-> dev.shift]
          BY <3>4 DEF Uartgetc
        <5> HIDE DEF got
        <5> QED BY ONLY <5>1, Zenon
      <4> HIDE DEF got
      <4>2. dev' = [dev EXCEPT !.uart = Tail(dev.uart), !.shift = dev.shift]
        BY <3>1, <3>4, <4>1
      <4>3. dev'.kbd = dev.kbd /\ dev'.shift = dev.shift /\ dev'.down = dev.down
        BY <1>1, <4>2 DEF DevType
      <4> QED BY <1>2, <4>3
    <3> QED BY <3>2, <3>3, <3>4
  <2> QED BY <1>3, <1>7, <2>1, <2>2, <2>3, <2>4 DEF HandlerNext
<1>8. CASE Key
  <2> DEFINE k == Head(dev.todo)
             down == IF k.up THEN dev.down \ {k.key} ELSE dev.down \cup {k.key}
  <2>1. /\ dev.todo # <<>> /\ k.dev = "kbd" /\ dev.kbd = <<>>
        /\ dev' = [dev EXCEPT !.kbd = Bytes(k.key, k.up), !.todo = Tail(dev.todo), !.down = down]
    BY <1>8 DEF Key
  <2>2. k \in Event
    <3>1. dev.todo \in Seq(Event)
      BY <1>1 DEF DevType
    <3> QED BY <2>1, <3>1, SMT
  <2>3. /\ k.key \in {"a", "d", "h", "u", "ret", "ctl", "rctl", "shift", "caps"}
        /\ k.up \in BOOLEAN
    BY <2>1, <2>2 DEF Event
  <2> HIDE DEF k
  <2>4. Modifiers(Bytes(k.key, k.up), dev.shift, down)
    BY <2>1, <2>3, KeyModifiers DEF ModifierInv
  <2> HIDE DEF down
  <2>5. dev'.kbd = Bytes(k.key, k.up) /\ dev'.shift = dev.shift /\ dev'.down = down
    BY <1>1, <2>1 DEF DevType
  <2> QED BY <2>4, <2>5 DEF ModifierInv
<1>9. CASE SerialChar
  <2>1. dev' = [dev EXCEPT !.uart = <<Head(dev.todo).key>>, !.todo = Tail(@)]
    BY <1>9 DEF SerialChar
  <2> QED BY <1>1, <1>2, <2>1 DEF DevType
<1>10. CASE UNCHANGED vars
  BY <1>3, <1>10 DEF vars
<1> QED BY <1>4, <1>5, <1>6, <1>7, <1>8, <1>9, <1>10, NextIs

\* When all that the keyboard sent is read, CTL is on only if one of the control
\* keys is down, SHIFT only if a shift key is, and no escape is left over: a
\* modifier is never stuck, whatever keys overlap and whenever the bytes are read.
THEOREM ModifiersAreReleased == Spec => []NoStuckModifier
<1>1. Init => ConsoleInv /\ ModifierInv
  <2> SUFFICES ASSUME Init PROVE ModifierInv
    BY ConsoleInitInv, Zenon
  <2>1. PICK s \in Scenarios : dev = [kbd |-> <<>>, uart |-> <<>>, down |-> {}, shift |-> {},
                                      todo |-> s.script, ticks |-> s.ticks]
    BY Zenon DEF Init
  <2>2. dev.kbd = <<>> /\ dev.down = {} /\ dev.shift = {}
    BY <2>1, Zenon
  <2> QED BY <2>2, Zenon DEF ModifierInv, Modifiers, Backed
<1>2. ConsoleInv /\ ModifierInv /\ [Next]_vars => (ConsoleInv /\ ModifierInv)'
  BY ConsoleNextInv, ModifierNext, Zenon
<1>3. ModifierInv => NoStuckModifier
  <2>1. \A x, y : <<x>> # <<>> /\ <<x, y>> # <<>>
    OBVIOUS
  <2> QED BY <2>1, Zenon DEF ModifierInv, Modifiers, Backed, NoStuckModifier
<1> QED BY <1>1, <1>2, <1>3, PTL DEF Spec
=============================================================================
